---- MODULE Spec2Model ----
(***************************************************************************)
(* IoStore container reader of unreal.js (src/ue4/io/IoStore.ts):          *)
(* FIoStoreTocHeader, FIoOffsetAndLength, FIoStoreTocCompressedBlockEntry, *)
(* FIoStoreTocResource (TOC parser and chunk index) and FIoStoreReader     *)
(* (mount, chunk read and file list), with Utils.align                     *)
(* (src/util/Utils.ts).                                                    *)
(*                                                                         *)
(* Numbers: TLC integers are 32 bit, so a u64 of the header is kept as two *)
(* 30-bit limbs (U64), and the packed records are kept as byte tuples that *)
(* the getters decode byte by byte, the way the code's shifts and masks    *)
(* act on them.                                                            *)
(***************************************************************************)
EXTENDS Integers, Sequences, FiniteSets, TLC

(***************************************************************************)
(* Bounds of the model.                                                    *)
(***************************************************************************)
\* Calls of initialize/_initialize on one reader in a behaviour of Spec.
MaxMounts == 2
\* Compression blocks of the containers that are read in SpecRead.
MaxBlocks == 3
\* Entries of the chunk-id table in the index family.
MaxChunks == 2

(***************************************************************************)
(* Arithmetic of the code.                                                 *)
(***************************************************************************)
Min(a, b) == IF a <= b THEN a ELSE b
Max(a, b) == IF a >= b THEN a ELSE b

\* x & ~(alignment - 1) on int32 two's complement, alignment a power of two:
\* clears the low bits, for negative x too.
MaskLow(x, alignment) == x - (x % alignment)

\* A mutant of align: the low bits are not cleared.
align_unmasked(value, alignment) == value + alignment

\* Utils.align: `value + alignment & ~(alignment - 1)`; + binds tighter than &.
align(value, alignment) == MaskLow(value + alignment, alignment)

\* Utils.alignBigInt is called by read but is not part of the sources at
\* hand; it is the alignUp of the chunk reader's block-range formula.
alignBigInt(value, alignment) == MaskLow(value + alignment - 1, alignment)

\* Aes.BLOCK_SIZE
AesBlockSize == 16

\* A u64 as two 30-bit limbs, value = hi * 2^30 + lo.
Limb == 2^30
U64(hi, lo) == <<hi, lo>>
\* 0xFFFFFFFFFFFFFFFn = 2^60 - 1
PartitionSizeDefault == U64(Limb - 1, Limb - 1)

\* A number below 2^30 as a limb pair.
BigOf(n) == U64(0, n)
\* The sum of two limb pairs, normalised; hi is negative for a negative sum.
BigAdd(a, b) == <<a[1] + b[1] + (a[2] + b[2]) \div Limb, (a[2] + b[2]) % Limb>>
\* x & 0xFFFFFFFF on a u32 x: the operands of & become int32, so a value of
\* 2^31 and above comes out as x - 2^32.
ToInt32(x) == IF x[1] >= 2 THEN <<x[1] - 4, x[2]>> ELSE x

\* BigInt division and remainder of a 40-bit block offset L (< 2^30 in the
\* model) by a nonzero u64 partition size.
IsZero(ps) == ps[1] = 0 /\ ps[2] = 0
BigDiv(L, ps) ==
    IF ps[1] > 0 THEN 0 ELSE IF ps[2] = 0 THEN -1 ELSE L \div ps[2]
BigMod(L, ps) ==
    IF ps[1] > 0 THEN L ELSE IF ps[2] = 0 THEN -1 ELSE L % ps[2]

(***************************************************************************)
(* Packed records.                                                         *)
(***************************************************************************)
\* Byte k (0-based) of the little-endian encoding of n.
ByteLE(n, k) == (n \div (256 ^ k)) % 256

\* The offset and the length the container writer packed into a record
\* (below 2^31 in the model).
WrittenOffset(ol) == ol[5] + 256 * ol[4] + 65536 * ol[3] + 16777216 * ol[2]
WrittenLength(ol) == ol[10] + 256 * ol[9] + 65536 * ol[8] + 16777216 * ol[7]

\* A 10-byte offset/length record as the container writer packs it:
\* two big-endian 40-bit fields.
PackOffsetAndLength(off, len) ==
    << 0, ByteLE(off, 3), ByteLE(off, 2), ByteLE(off, 1), ByteLE(off, 0),
       0, ByteLE(len, 3), ByteLE(len, 2), ByteLE(len, 1), ByteLE(len, 0) >>

\* FIoOffsetAndLength.offset: bytes 0..4, most significant first.
OffsetOf(ol) ==
    (((ol[1] * 256 + ol[2]) * 256 + ol[3]) * 256 + ol[4]) * 256 + ol[5]

\* FIoOffsetAndLength.length: bytes 5..9, most significant first.
LengthOf(ol) ==
    (((ol[6] * 256 + ol[7]) * 256 + ol[8]) * 256 + ol[9]) * 256 + ol[10]

\* A mutant of FIoOffsetAndLength_offset: byte 0 is left out.
FIoOffsetAndLength_offset_low32(ol) ==
    U64(ol[2] \div 64, (((ol[2] % 64) * 256 + ol[3]) * 256 + ol[4]) * 256 + ol[5])

\* FIoOffsetAndLength.offset as the BigInt it is, in limbs:
\* b4 | b3 << 8 | b2 << 16 | b1 << 24 | b0 << 32.
FIoOffsetAndLength_offset(ol) ==
    U64(ol[1] * 4 + ol[2] \div 64,
        (((ol[2] % 64) * 256 + ol[3]) * 256 + ol[4]) * 256 + ol[5])

\* FIoOffsetAndLength.length as the BigInt it is, in limbs:
\* b9 | b8 << 8 | b7 << 16 | b6 << 24 | b5 << 32.
FIoOffsetAndLength_length(ol) ==
    U64(ol[6] * 4 + ol[7] \div 64,
        (((ol[7] % 64) * 256 + ol[8]) * 256 + ol[9]) * 256 + ol[10])

\* A 12-byte compressed-block entry as the container writer packs it:
\* 5 bytes offset, 3 bytes compressed size, 3 bytes uncompressed size,
\* 1 byte method index, all little-endian.
PackBlockEntry(off, csize, usize, method) ==
    << ByteLE(off, 0), ByteLE(off, 1), ByteLE(off, 2), ByteLE(off, 3), 0,
       ByteLE(csize, 0), ByteLE(csize, 1), ByteLE(csize, 2),
       ByteLE(usize, 0), ByteLE(usize, 1), ByteLE(usize, 2),
       method >>

\* A byte as the top byte of an int32: 0x80 and above are negative.
SignedByte(b) == IF b >= 128 THEN b - 256 ELSE b

\* FIoStoreTocCompressedBlockEntry.offset: readBigUInt64LE() & OffsetMask,
\* the low 40 bits (bytes 0..4).
EntryOffset(e) ==
    (((e[5] * 256 + e[4]) * 256 + e[3]) * 256 + e[2]) * 256 + e[1]

\* FIoStoreTocCompressedBlockEntry.compressedSize: readUInt32LE(4) >> 8.
\* >> converts the u32 to int32 and shifts arithmetically: byte 4 drops out
\* and byte 7 is the signed top byte.
EntryCompressedSize(e) == e[6] + 256 * e[7] + 65536 * SignedByte(e[8])

\* FIoStoreTocCompressedBlockEntry.uncompressedSize: readUInt32LE(8) & SizeMask.
EntryUncompressedSize(e) == e[9] + 256 * e[10] + 65536 * e[11]

\* A mutant of EntryCompressionMethodIndex: every block is method 0.
EntryCompressionMethodIndex_zero(e) == 0

\* FIoStoreTocCompressedBlockEntry.compressionMethodIndex:
\* readUInt32LE(8) >> SizeBits, again through int32.
EntryCompressionMethodIndex(e) == SignedByte(e[12])

\* What the container writer stored in the 24-bit compressed-size field.
FieldCompressedSize(e) == e[6] + 256 * e[7] + 65536 * e[8]
\* What the container writer stored in the 24-bit uncompressed-size field.
FieldUncompressedSize(e) == e[9] + 256 * e[10] + 65536 * e[11]
\* What the container writer stored in the method byte.
FieldMethod(e) == e[12]

(***************************************************************************)
(* Containers on disk: the .utoc image and the .ucas partition files.      *)
(* A container is the input of a mount; its fields are what the container  *)
(* writer put into the files.                                              *)
(***************************************************************************)
\* FIoStoreTocHeader.TocMagicImg
TocMagicImg == "-==--==--==--==-"

\* EIoStoreTocVersion
Version_Invalid == 0
Version_Initial == 1
Version_DirectoryIndex == 2
Version_PartitionSize == 3

\* compressionBlockSize of the small containers.
SmallBlockSize == 2 ^ 2
\* 2^23: the smallest size whose top byte in the 24-bit field is 0x80.
HighBitSize == 2 ^ 23

ChunkIdVals == {"a", "b", "c"}
Guids == {"g1"}
\* The AES key that belongs to a key guid.
KeyOf(guid) == <<"key", guid>>
\* Method names the compression registry knows.
RegisteredMethods == {"Zlib", "Oodle"}

\* The slot a block's frame occupies in the content file: block offsets are
\* 16-byte aligned.
SlotSize(csize) == ((csize + 15) \div 16) * 16

\* Kinds of compression block a container writer produces, for block size bs.
RawBlock(bs)   == [csize |-> bs, usize |-> bs, method |-> 0]
ShortBlock(bs) == [csize |-> bs - 1, usize |-> bs - 1, method |-> 0]
Zlib1(bs)      == [csize |-> 1, usize |-> bs, method |-> 1]
Zlib16(bs)     == [csize |-> 16, usize |-> bs, method |-> 1]
Zlib17(bs)     == [csize |-> 17, usize |-> bs, method |-> 1]
\* A block whose method byte names no entry of the method table.
BadMethod(bs)  == [csize |-> 3, usize |-> bs, method |-> 2]
\* A block whose method byte is 0x80.
HighMethod(bs) == [csize |-> 3, usize |-> bs, method |-> 128]

BlockKinds(bs) ==
    {RawBlock(bs), ShortBlock(bs), Zlib1(bs), Zlib16(bs), Zlib17(bs), BadMethod(bs),
     HighMethod(bs)}

RECURSIVE SlotOffset(_, _)
\* Logical offset of block j (1-based) when frames are laid out back to back.
SlotOffset(kinds, j) ==
    IF j = 1 THEN 0
    ELSE SlotOffset(kinds, j - 1) + SlotSize(kinds[j - 1].csize)

BlockTable(kinds) ==
    [j \in 1..Len(kinds) |->
        PackBlockEntry(SlotOffset(kinds, j), kinds[j].csize, kinds[j].usize,
                       kinds[j].method)]

\* EIoStoreTocReadOptions, as the set of the bits that are set.
ReadDirectoryIndex == "ReadDirectoryIndex"
ReadTocMeta == "ReadTocMeta"
ReadAll == {ReadDirectoryIndex, ReadTocMeta}

\* Byte 0 in a method-name slot; the other bytes are characters.
NUL == "NUL"
\* A slot of n bytes: the characters of a name, then NULs; a name of n or
\* more characters fills the slot and leaves no NUL.
Slot(chars, n) == [k \in 1..n |-> IF k <= Len(chars) THEN chars[k] ELSE NUL]
ZlibChars == <<"Z", "l", "i", "b">>

\* 0xFFFFFFFF in a cross-reference of a directory index: none.
None == -1
\* A directory-index blob without entries but the root directory.
NoDirectoryIndex ==
    [ mountPoint |-> "",
      directoryEntries |->
          << [name |-> "", firstChildEntry |-> None, nextSiblingEntry |-> None,
              firstFileEntry |-> None] >>,
      fileEntries |-> << >> ]

\* A version-3, single-partition, unencrypted container with one chunk "a".
BaseContainer(path, bs, kinds, off, len) ==
    [ path |-> path,
      tocMagic |-> TocMagicImg,
      version |-> Version_PartitionSize,
      tocHeaderSize |-> 144,
      tocCompressedBlockEntrySize |-> 12,
      compressionBlockSize |-> bs,
      partitionCount |-> 1,
      partitionSize |-> PartitionSizeDefault,
      encryptionKeyGuid |-> "g1",
      containerFlags |-> {},
      chunkIds |-> <<"a">>,
      chunkOffsetLengths |-> <<PackOffsetAndLength(off, len)>>,
      compressionBlocks |-> BlockTable(kinds),
      methodNames |-> <<"Zlib">>,
      compressionMethodNameLength |-> 6,
      methodSlots |-> <<Slot(ZlibChars, 6)>>,
      hashSize |-> 0,
      directoryIndexSize |-> U64(0, 0),
      directoryIndex |-> NoDirectoryIndex,
      missing |-> {},
      truncate |-> 0 ]

\* No container: the placeholder where none has been named yet.
NoContainer == BaseContainer(<<>>, 0, <<>>, 0, 0)

Flagged(enc) == IF enc THEN {"Encrypted"} ELSE {}

\* kinds <<first, rest, ..., rest, last>> of n blocks.
KindSeq(n, first, rest, last) ==
    [j \in 1..n |-> IF j = n THEN last ELSE IF j = 1 THEN first ELSE rest]

\* Layout family: one chunk at every (offset, length) of an n-block stream,
\* raw or compressed blocks, the last block full or short, plain or encrypted.
LayoutFamily ==
    { [ BaseContainer(<<"layout", off, len, k, last, enc>>, SmallBlockSize,
                      KindSeq(MaxBlocks, k, k, last), off, len)
          EXCEPT !.containerFlags = Flagged(enc) ] :
        off \in 0..(MaxBlocks * SmallBlockSize - 1),
        len \in 0..(MaxBlocks * SmallBlockSize),
        k \in {RawBlock(SmallBlockSize), Zlib16(SmallBlockSize)},
        last \in {RawBlock(SmallBlockSize), ShortBlock(SmallBlockSize)},
        enc \in BOOLEAN }

\* Kind family: one chunk over the whole stream, every pair of block kinds
\* for the first and the following blocks, plain or encrypted.
KindFamily ==
    { [ BaseContainer(<<"kinds", first, rest, enc>>, SmallBlockSize,
                      KindSeq(MaxBlocks, first, rest, rest), 0,
                      MaxBlocks * SmallBlockSize)
          EXCEPT !.containerFlags = Flagged(enc) ] :
        first \in BlockKinds(SmallBlockSize),
        rest \in BlockKinds(SmallBlockSize),
        enc \in BOOLEAN }

\* One raw block of 2^23 bytes, read whole: compressionBlockSize = 2^23.
BigBlockContainer ==
    BaseContainer(<<"big">>, HighBitSize, <<RawBlock(HighBitSize)>>, 0, HighBitSize)

\* Header family: the tables of one two-block container under every header.
HeaderBase(path) ==
    BaseContainer(path, SmallBlockSize,
                  <<Zlib17(SmallBlockSize), RawBlock(SmallBlockSize)>>, 1, 4)

HeaderFamily ==
    { [HeaderBase(<<"magic">>) EXCEPT !.tocMagic = "-==--==--==--=+-"],
      [HeaderBase(<<"hsize">>) EXCEPT !.tocHeaderSize = 143],
      [HeaderBase(<<"esize">>) EXCEPT !.tocCompressedBlockEntrySize = 16],
      [HeaderBase(<<"v0">>) EXCEPT !.version = Version_Invalid],
      [HeaderBase(<<"ps0">>) EXCEPT !.partitionSize = U64(0, 0)] }
    \cup
    { [ HeaderBase(<<"hdr", v, pc, ps, enc>>)
          EXCEPT !.version = v, !.partitionCount = pc, !.partitionSize = ps,
                 !.containerFlags = Flagged(enc) ] :
        v \in {Version_Initial, Version_DirectoryIndex, Version_PartitionSize, 4, 255},
        pc \in {1, 2},
        ps \in {U64(0, 32), PartitionSizeDefault},
        enc \in BOOLEAN }

\* Truncated family: raw blocks read whole, from a content file that has lost
\* its last 13 or 16 bytes.
TruncatedFamily ==
    { [ BaseContainer(<<"truncated", lost, enc>>, SmallBlockSize,
                      KindSeq(MaxBlocks, RawBlock(SmallBlockSize),
                              RawBlock(SmallBlockSize), RawBlock(SmallBlockSize)),
                      0, MaxBlocks * SmallBlockSize)
          EXCEPT !.truncate = lost, !.containerFlags = Flagged(enc) ] :
        lost \in {13, 16}, enc \in BOOLEAN }

\* Missing family: the two-partition container with one or both of its
\* content files absent.
MissingFamily ==
    { [ HeaderBase(<<"missing", absent, enc>>)
          EXCEPT !.partitionCount = 2, !.partitionSize = U64(0, 32),
                 !.missing = absent, !.containerFlags = Flagged(enc) ] :
        absent \in {{0}, {1}, {0, 1}}, enc \in BOOLEAN }

RECURSIVE SeqsUpTo(_, _)
\* All sequences over S of length at most n.
SeqsUpTo(S, n) ==
    IF n = 0 THEN {<<>>}
    ELSE LET shorter == SeqsUpTo(S, n - 1)
         IN  shorter \cup {Append(q, x) : q \in shorter, x \in S}

\* Index family: every chunk-id table of at most MaxChunks entries, repeated
\* ids included; the chunk at position i (0-based) is (offset i, length i + 1).
IndexFamily ==
    { [ BaseContainer(<<"index", ids>>, SmallBlockSize,
                      KindSeq(MaxBlocks, RawBlock(SmallBlockSize),
                              RawBlock(SmallBlockSize), RawBlock(SmallBlockSize)),
                      0, 0)
          EXCEPT !.chunkIds = ids,
                 !.chunkOffsetLengths =
                     [i \in 1..Len(ids) |-> PackOffsetAndLength(i - 1, i)] ] :
        ids \in SeqsUpTo(ChunkIdVals, MaxChunks) }

\* The containers a reader is mounted on, again and again, in Spec: one of
\* each header outcome and four chunk-id tables.
LifecyclePaths ==
    { <<"magic">>, <<"hsize">>, <<"esize">>,
      <<"hdr", Version_Initial, 1, PartitionSizeDefault, FALSE>>,
      <<"hdr", Version_DirectoryIndex, 2, U64(0, 32), TRUE>>,
      <<"hdr", Version_PartitionSize, 2, U64(0, 32), FALSE>>,
      <<"hdr", 4, 1, PartitionSizeDefault, FALSE>>,
      <<"index", <<>>>>, <<"index", <<"a">>>>, <<"index", <<"b", "a">>>>,
      <<"index", <<"a", "a">>>>,
      <<"missing", {0}, FALSE>>, <<"missing", {1}, FALSE>> }
LifecycleContainers ==
    {c \in HeaderFamily \cup IndexFamily \cup MissingFamily :
        c.path \in LifecyclePaths}

\* The containers a reader is mounted on once in SpecRead.
ReadContainers ==
    LayoutFamily \cup KindFamily \cup {BigBlockContainer}
        \cup HeaderFamily \cup IndexFamily \cup TruncatedFamily \cup MissingFamily

\* Directory indexes.  Tree: the root holds A.uasset (entry 0) and B.ubulk
\* (entry 1) and the directory Content, which holds C.uasset (entry 2); file
\* entry 3 and directory entry 2 are linked from nowhere.
Dir(name, firstChildEntry, nextSiblingEntry, firstFileEntry) ==
    [name |-> name, firstChildEntry |-> firstChildEntry,
     nextSiblingEntry |-> nextSiblingEntry, firstFileEntry |-> firstFileEntry]
File(name, nextFileEntry, userData) ==
    [name |-> name, nextFileEntry |-> nextFileEntry, userData |-> userData]
TreeIndex ==
    [ mountPoint |-> "/Game/",
      directoryEntries |->
          << Dir("", 1, None, 0), Dir("Content", None, None, 2),
             Dir("Lost", None, None, 3) >>,
      fileEntries |->
          << File("A.uasset", 1, 0), File("B.ubulk", None, 1),
             File("C.uasset", None, 2), File("U.uasset", None, 0) >> ]
\* Flat: the root holds C.uasset (entry 2) and A.uasset (entry 0).
FlatIndex ==
    [ mountPoint |-> "/Flat/",
      directoryEntries |-> << Dir("", None, None, 0) >>,
      fileEntries |-> << File("C.uasset", 1, 2), File("A.uasset", None, 0) >> ]

\* Offset/length records with bytes of every weight set, the top bytes and
\* bytes of 0x80 and above included.
WideRecords ==
    << << 255, 128, 0, 1, 2,    1, 0, 0, 128, 255 >>,
       << 0, 0, 0, 0, 7,        128, 255, 255, 255, 255 >>,
       << 128, 0, 64, 0, 0,     0, 0, 0, 0, 0 >> >>

\* A container with three chunks a, b, c and one raw block, for the parser.
TocBase(path) ==
    [ BaseContainer(path, SmallBlockSize, <<RawBlock(SmallBlockSize)>>, 0, 0)
        EXCEPT !.chunkIds = <<"a", "b", "c">>,
               !.chunkOffsetLengths = WideRecords ]

\* With a directory index of size bytes, signed or not.
Indexed(path, index, size, signed, hashSize) ==
    [ TocBase(path)
        EXCEPT !.containerFlags = {"Indexed"} \cup (IF signed THEN {"Signed"} ELSE {}),
               !.hashSize = hashSize,
               !.directoryIndexSize = size,
               !.directoryIndex = index ]

\* With the method-name slots given, all of one length.
Slotted(path, slots, length) ==
    [ TocBase(path)
        EXCEPT !.methodNames = [i \in 1..Len(slots) |-> "Zlib"],
               !.compressionMethodNameLength = length,
               !.methodSlots = slots ]

\* The containers a reader parses in SpecToc: without and with a directory
\* index, of a size below 2^31 and of 2^31 and 2^32 - 1 bytes; without
\* chunks; and method-name slots with the NUL at the end, before other
\* bytes, and nowhere (a name that fills its slot, a table of slot length 0).
TocContainers ==
    { TocBase(<<"toc", "plain">>),
      [TocBase(<<"toc", "empty">>) EXCEPT !.chunkIds = <<>>,
                                         !.chunkOffsetLengths = <<>>],
      Indexed(<<"toc", "tree">>, TreeIndex, U64(0, 40), TRUE, 8),
      Indexed(<<"toc", "flat">>, FlatIndex, U64(0, 24), FALSE, 0),
      Indexed(<<"toc", "2^31">>, FlatIndex, U64(2, 0), FALSE, 0),
      Indexed(<<"toc", "2^32-1">>, TreeIndex, U64(3, Limb - 1), TRUE, 8),
      Slotted(<<"toc", "after">>, << <<"Z", "l", "i", "b", NUL, "x">> >>, 6),
      Slotted(<<"toc", "full">>,
              << Slot(ZlibChars, 4), Slot(ZlibChars, 4) >>, 4),
      Slotted(<<"toc", "zero">>, << <<>> >>, 0) }

\* The partition layout the container writer used: the header's values from
\* version PartitionSize on, one unbounded partition before.
WriterPartitionCount(c) ==
    IF c.version < Version_PartitionSize THEN 1 ELSE c.partitionCount
WriterPartitionSize(c) ==
    IF c.version < Version_PartitionSize THEN PartitionSizeDefault ELSE c.partitionSize

\* Length of the partition file p of container c: the end of the last slot
\* stored in it, less the bytes a truncated copy has lost.
FileLen(c, p) ==
    LET ps == WriterPartitionSize(c)
        ends == { BigMod(EntryOffset(c.compressionBlocks[j]), ps)
                    + SlotSize(FieldCompressedSize(c.compressionBlocks[j])) :
                  j \in { k \in 1..Len(c.compressionBlocks) :
                            BigDiv(EntryOffset(c.compressionBlocks[k]), ps) = p } }
        full == IF ends = {} THEN 0 ELSE CHOOSE m \in ends : \A e \in ends : e <= m
    IN  Max(0, full - c.truncate)

\* The block of container c whose frame starts at byte pos of partition p,
\* 0 when no frame starts there.
FrameAt(c, p, pos) ==
    LET ps == WriterPartitionSize(c)
        hit == { j \in 1..Len(c.compressionBlocks) :
                   /\ BigDiv(EntryOffset(c.compressionBlocks[j]), ps) = p
                   /\ BigMod(EntryOffset(c.compressionBlocks[j]), ps) = pos }
    IN  IF hit = {} THEN 0 ELSE CHOOSE j \in hit : TRUE

(***************************************************************************)
(* State.                                                                  *)
(***************************************************************************)
VARIABLES
    toc,                   \* FIoStoreReader.toc: the FIoStoreTocResource
    decryptionKey,         \* FIoStoreReader.decryptionKey, <<>> is null
    containerFileHandles,  \* FIoStoreReader.containerFileHandles
    environment,           \* FIoStoreReader.environment (its path), <<>> is unset
    pc,                    \* "idle", "loop" (inside read's block loop), "done"
    rd,                    \* the locals of the running read
    out,                   \* what the last call returned or threw
    mounted,               \* the last mount: the container and the key map it
                           \* was given, what it threw, the partition whose
                           \* file its open error names, the entry
                           \* point, what the TOC parser threw, and the state
                           \* it left: Unmounted, Mounted, Failed or Hung
    mounts,                \* calls of initialize/_initialize so far
    directoryIndexReader   \* FIoStoreReader.directoryIndexReader: the Lazy

vars == <<toc, decryptionKey, containerFileHandles, environment, pc, rd, out,
          mounted, mounts, directoryIndexReader>>

\* EIoContainerFlags.Encrypted is set in the flags.
IsEncrypted(flags) == "Encrypted" \in flags

\* The header fields of a .utoc image, as the FIoStoreTocHeader constructor
\* reads them.
ReadHeader(c) ==
    [ version |-> c.version,
      tocHeaderSize |-> c.tocHeaderSize,
      tocEntryCount |-> Len(c.chunkIds),
      tocCompressedBlockEntryCount |-> Len(c.compressionBlocks),
      tocCompressedBlockEntrySize |-> c.tocCompressedBlockEntrySize,
      compressionMethodNameCount |-> Len(c.methodSlots),
      compressionMethodNameLength |-> c.compressionMethodNameLength,
      directoryIndexSize |-> c.directoryIndexSize,
      compressionBlockSize |-> c.compressionBlockSize,
      partitionCount |-> c.partitionCount,
      encryptionKeyGuid |-> c.encryptionKeyGuid,
      containerFlags |-> c.containerFlags,
      partitionSize |-> c.partitionSize ]

\* FIoStoreTocHeader.checkMagic
checkMagic(tocMagic) == tocMagic = TocMagicImg

\* A mutant of HeaderError: the version check is dropped.
HeaderError_noVersion(h) ==
    IF h.tocHeaderSize # 144 THEN "TOC header size mismatch"
    ELSE IF h.tocCompressedBlockEntrySize # 12
         THEN "TOC compressed block entry size mismatch"
    ELSE ""

\* The three checks of FIoStoreTocResource.read on the header it has read;
\* "" when none throws.
HeaderError(h) ==
    IF h.tocHeaderSize # 144 THEN "TOC header size mismatch"
    ELSE IF h.tocCompressedBlockEntrySize # 12
         THEN "TOC compressed block entry size mismatch"
    ELSE IF h.version < Version_DirectoryIndex THEN "Outdated TOC header version"
    ELSE ""

\* A mutant of PartitionDefaults: the header's values are kept.
PartitionDefaults_kept(h) == h

\* FIoStoreTocResource.read: versions before PartitionSize get one partition
\* of size 0xFFFFFFFFFFFFFFF.
PartitionDefaults(h) ==
    IF h.version < Version_PartitionSize
    THEN [h EXCEPT !.partitionCount = 1, !.partitionSize = PartitionSizeDefault]
    ELSE h

\* A mutant of LastPosition: the first position of id in ids.
LastPosition_first(ids, id) ==
    CHOOSE i \in 1..Len(ids) : ids[i] = id /\ \A j \in 1..(i - 1) : ids[j] # id

\* Position (1-based) of the last occurrence of id in ids.
LastPosition(ids, id) ==
    CHOOSE i \in 1..Len(ids) : ids[i] = id /\ \A j \in (i + 1)..Len(ids) : ids[j] # id

\* FIoStoreTocResource.read, chunk-id loop: chunkIdToIndex[id] = i for every
\* position i (0-based) in turn, on top of the entries the object already has.
IndexChunkIds(chunkIdToIndex, ids) ==
    LET new == {ids[i] : i \in 1..Len(ids)}
    IN  [id \in (DOMAIN chunkIdToIndex) \cup new |->
            IF id \in new THEN LastPosition(ids, id) - 1 ELSE chunkIdToIndex[id]]

\* The FIoStoreTocResource of a new FIoStoreReader: no header, no tables,
\* no directory-index blob (<<>> is null), chunkIdToIndex = {}.
NoHeader == ReadHeader(NoContainer)
NewToc ==
    [ hasHeader |-> FALSE,
      header |-> NoHeader,
      hasTables |-> FALSE,
      chunkIds |-> <<>>,
      chunkOffsetLengths |-> <<>>,
      compressionBlocks |-> <<>>,
      compressionMethods |-> <<>>,
      chunkMetas |-> <<>>,
      directoryIndexBuffer |-> <<>>,
      chunkIdToIndex |-> [id \in {} |-> 0] ]

RECURSIVE ScanLength(_, _)
\* `while (compressionMethodName[length] !== 0) ++length`, entered with the
\* given length: the index of the first NUL from there on.  Past the end of
\* the buffer every element is undefined, and undefined !== 0 holds, so
\* without a NUL the loop never ends: -1.
ScanLength(compressionMethodName, length) ==
    IF length >= Len(compressionMethodName) THEN -1
    ELSE IF compressionMethodName[length + 1] = NUL THEN length
    ELSE ScanLength(compressionMethodName, length + 1)

RECURSIVE Utf8(_, _)
\* compressionMethodName.toString("utf-8", 0, length)
Utf8(compressionMethodName, length) ==
    IF length = 0 THEN ""
    ELSE Utf8(compressionMethodName, length - 1) \o compressionMethodName[length]

\* The first slot (1-based) of the method-name table of image c whose scan
\* never ends; count + 1 when every scan ends.
FirstEndless(c, count) ==
    LET endless == {i \in 1..count : ScanLength(c.methodSlots[i], 0) = -1}
    IN  IF endless = {} THEN count + 1
        ELSE CHOOSE i \in endless : \A j \in endless : i <= j

\* FIoStoreTocResource.read, method-name loop: "None", then the name of each
\* slot before the first one whose scan never ends.
CompressionMethods(c, count) ==
    <<"None">> \o
    [i \in 1..(FirstEndless(c, count) - 1) |->
        Utf8(c.methodSlots[i], ScanLength(c.methodSlots[i], 0))]

\* The cursor after the method-name table: the header, then 12 bytes a chunk
\* id, 10 bytes an offset/length record, 12 bytes a block entry, and the
\* slots.
TablesEnd(h) ==
    144 + h.tocEntryCount * 12 + h.tocEntryCount * 10
        + h.tocCompressedBlockEntryCount * 12
        + h.compressionMethodNameCount * h.compressionMethodNameLength

\* FIoStoreTocResource.read, signature block: with the Signed flag the cursor
\* passes the i32 hashSize, two buffers of hashSize bytes and 20 bytes a block.
SkipSignatures(h, hashSize, pos) ==
    IF "Signed" \in h.containerFlags
    THEN pos + 4 + hashSize + hashSize + h.tocCompressedBlockEntryCount * 20
    ELSE pos

\* Where the container writer put the directory-index blob and the metas.
DirectoryIndexStart(c) ==
    BigOf(SkipSignatures(ReadHeader(c), c.hashSize, TablesEnd(ReadHeader(c))))
MetaStart(c) ==
    IF "Indexed" \in c.containerFlags
    THEN BigAdd(DirectoryIndexStart(c), c.directoryIndexSize)
    ELSE DirectoryIndexStart(c)

\* The meta record of entry k (1-based) of image c: chunk hash and flags.
WriterMeta(c, k) == [chunkHash |-> <<"hash", c.chunkIds[k], k>>, flags |-> 0]

\* What a meta read from a position of the image that is not the start of a
\* meta record holds.
Misread == [chunkHash |-> <<"misread">>, flags |-> 0]

\* FArchive.readBuffer(n) at cursor pos of image c, with what it does when n
\* is negative: the bytes it returns (their number, whether they are the
\* directory-index blob of the image, and the blob), the cursor it leaves,
\* the error it throws.  A negative n is outside what the primitive reader is described
\* for: it throws, or it returns no byte and moves the cursor by n.
readBuffer(c, pos, n, negative) ==
    IF n[1] < 0
    THEN IF negative = "throws"
         THEN [bytes |-> <<>>, pos |-> pos, error |-> "UnexpectedEof"]
         ELSE [bytes |-> [size |-> U64(0, 0), intact |-> FALSE,
                          index |-> NoDirectoryIndex],
               pos |-> BigAdd(pos, n), error |-> ""]
    ELSE LET intact == pos = DirectoryIndexStart(c) /\ n = c.directoryIndexSize
         IN  [bytes |-> [size |-> n, intact |-> intact,
                         index |-> IF intact THEN c.directoryIndex
                                   ELSE NoDirectoryIndex],
              pos |-> BigAdd(pos, n), error |-> ""]

\* FIoStoreTocResource.read, directory index: with the Indexed flag and
\* directoryIndexSize > 0 the blob is captured by
\* readBuffer(directoryIndexSize & 0xFFFFFFFF) when ReadDirectoryIndex is
\* asked for, and passed by pos += directoryIndexSize when not; buffer is
\* the directoryIndexBuffer the object has.
DirectoryIndexStep(buffer, c, h, pos, readOptions, negative) ==
    IF "Indexed" \in h.containerFlags /\ ~IsZero(h.directoryIndexSize)
    THEN IF ReadDirectoryIndex \in readOptions
         THEN LET r == readBuffer(c, pos, ToInt32(h.directoryIndexSize), negative)
              IN  [buffer |-> IF r.error = "" THEN r.bytes ELSE buffer,
                   pos |-> r.pos, error |-> r.error]
         ELSE [buffer |-> buffer, pos |-> BigAdd(pos, h.directoryIndexSize),
               error |-> ""]
    ELSE [buffer |-> buffer, pos |-> pos, error |-> ""]

\* new FIoStoreTocEntryMeta(tocBuffer) at cursor pos of image c: 33 bytes.
MetaAt(c, pos) ==
    LET at == {k \in 1..Len(c.chunkIds) :
                  pos = BigAdd(MetaStart(c), BigOf(33 * (k - 1)))}
    IN  IF at = {} THEN Misread ELSE WriterMeta(c, CHOOSE k \in at : TRUE)

\* A mutant of ChunkMetas: the metas are read whatever the options.
ChunkMetas_always(c, pos, count, readOptions) ==
    [i \in 1..count |-> MetaAt(c, BigAdd(pos, BigOf(33 * (i - 1))))]

\* FIoStoreTocResource.read, meta: with ReadTocMeta an array of tocEntryCount
\* metas read from the cursor on, else [].
ChunkMetas(c, pos, count, readOptions) ==
    IF ReadTocMeta \in readOptions
    THEN [i \in 1..count |-> MetaAt(c, BigAdd(pos, BigOf(33 * (i - 1))))]
    ELSE <<>>

\* FIoStoreTocResource.read(tocBuffer, readOptions) on image c: the resource
\* after the call, the message of the error it threw ("" when none), whether
\* it is still in the scan of a method name, and the cursor it left after
\* the directory index.
TocRead(t, c, readOptions, negative) ==
    IF ~checkMagic(c.tocMagic)
    THEN [toc |-> t, error |-> "TOC header magic mismatch", hangs |-> FALSE,
          pos |-> U64(0, 0)]
    ELSE LET h == ReadHeader(c) IN
         IF HeaderError(h) # ""
         THEN [toc |-> [t EXCEPT !.hasHeader = TRUE, !.header = h],
               error |-> HeaderError(h), hangs |-> FALSE, pos |-> U64(0, 0)]
         ELSE LET tables ==
                      [ t EXCEPT
                          !.hasHeader = TRUE,
                          !.header = PartitionDefaults(h),
                          !.hasTables = TRUE,
                          !.chunkIds = [i \in 1..h.tocEntryCount |-> c.chunkIds[i]],
                          !.chunkOffsetLengths =
                              [i \in 1..h.tocEntryCount |-> c.chunkOffsetLengths[i]],
                          !.compressionBlocks =
                              [i \in 1..h.tocCompressedBlockEntryCount |->
                                  c.compressionBlocks[i]],
                          !.compressionMethods =
                              CompressionMethods(c, h.compressionMethodNameCount),
                          !.chunkIdToIndex =
                              IndexChunkIds(t.chunkIdToIndex, c.chunkIds) ]
                  dir == DirectoryIndexStep(
                             t.directoryIndexBuffer, c, h,
                             BigOf(SkipSignatures(h, c.hashSize, TablesEnd(h))),
                             readOptions, negative)
              IN  IF FirstEndless(c, h.compressionMethodNameCount)
                        <= h.compressionMethodNameCount
                  THEN [toc |-> tables, error |-> "", hangs |-> TRUE,
                        pos |-> U64(0, 0)]
                  ELSE IF dir.error # ""
                  THEN [toc |-> tables, error |-> dir.error, hangs |-> FALSE,
                        pos |-> dir.pos]
                  ELSE [toc |->
                          [ tables EXCEPT
                              !.directoryIndexBuffer = dir.buffer,
                              !.chunkMetas =
                                  ChunkMetas(c, dir.pos, h.tocEntryCount,
                                             readOptions) ],
                        error |-> "", hangs |-> FALSE, pos |-> dir.pos]

(***************************************************************************)
(* Lookups of FIoStoreTocResource.                                         *)
(***************************************************************************)
\* FIoStoreTocResource.getTocEntryIndex: `chunkIdToIndex[key] || -1`;
\* undefined and 0 are both falsy.
getTocEntryIndex(t, chunkId) ==
    IF chunkId \in DOMAIN t.chunkIdToIndex /\ t.chunkIdToIndex[chunkId] # 0
    THEN t.chunkIdToIndex[chunkId]
    ELSE -1

\* A mutant of getOffsetAndLength: an unknown chunk id gets the first record.
getOffsetAndLength_defaulted(t, chunkId) ==
    IF chunkId \in DOMAIN t.chunkIdToIndex
    THEN t.chunkOffsetLengths[t.chunkIdToIndex[chunkId] + 1]
    ELSE IF Len(t.chunkOffsetLengths) > 0 THEN t.chunkOffsetLengths[1] ELSE <<>>

\* FIoStoreTocResource.getOffsetAndLength: the record at chunkIdToIndex[key],
\* <<>> for null (no entry) and for undefined (no record at that index).
getOffsetAndLength(t, chunkId) ==
    IF chunkId \in DOMAIN t.chunkIdToIndex
    THEN LET index == t.chunkIdToIndex[chunkId] IN
         IF index + 1 <= Len(t.chunkOffsetLengths)
         THEN t.chunkOffsetLengths[index + 1] ELSE <<>>
    ELSE <<>>

(***************************************************************************)
(* Mount: FIoStoreReader.initialize and FIoStoreReader._initialize.        *)
(***************************************************************************)
\* A Buffer of threadBuffers.compressedBuffer: its length and what its first
\* `got` bytes are: the frame of block `blk` (1-based, 0 for none) of the
\* container `file`, still AES ciphertext or not, or junk. len = -1: null.
NoBuffer == [len |-> -1, file |-> NoContainer, blk |-> 0, got |-> 0,
             cipher |-> FALSE, junk |-> FALSE]

\* locals of a read that is not running
NoRead ==
    [ chunkId |-> "", offset |-> 0, length |-> 0,
      firstBlockIndex |-> 0, lastBlockIndex |-> -1, blockIndex |-> 0,
      offsetInBlock |-> 0, dstOff |-> 0, remainingSize |-> 0,
      compressedBuffer |-> NoBuffer, uncompressedBuffer |-> -1,
      dst |-> <<>>, visited |-> <<>>, log |-> <<>> ]

\* decryptionKeys.get(guid) for the key map that holds the keys of `keys`.
KeyLookup(keys, guid) == IF guid \in keys THEN KeyOf(guid) ELSE <<>>

\* A mutant of FirstUnopenable: every file opens.
FirstUnopenable_none(c, n) == n

\* The first partition below n whose file cannot be opened, n when all open.
FirstUnopenable(c, n) ==
    IF \E i \in 0..(n - 1) : i \in c.missing
    THEN CHOOSE i \in 0..(n - 1) : i \in c.missing /\ \A j \in 0..(i - 1) : j \notin c.missing
    ELSE n

\* containerFilePath: environment.path, "_s" + partitionIndex for
\* partitionIndex > 0, ".ucas".
ContainerFilePath(path, partitionIndex) ==
    IF partitionIndex > 0 THEN <<path, "_s", partitionIndex, ".ucas">>
    ELSE <<path, ".ucas">>

\* containerFileHandles after `containerFileHandles[i] = fs.openSync(...)`
\* for i = 0 .. n - 1: a handle is the file it was opened on, by name, that
\* is the content file of partition i of container c.
OpenHandles(handles, c, n) ==
    [i \in 1..Max(Len(handles), n) |->
        IF i <= n
        THEN [file |-> c, partition |-> i - 1,
              name |-> ContainerFilePath(c.path, i - 1)]
        ELSE handles[i]]

\* FIoStoreReader.initialize(environment, decryptionKeys, readOptions)
initialize(c, keys, readOptions, negative) ==
    /\ pc = "idle"
    /\ LET r == TocRead(toc, c, readOptions, negative)
           h == r.toc.header
           opened == FirstUnopenable(c, h.partitionCount)
           key == KeyLookup(keys, h.encryptionKeyGuid)
           error ==
               IF r.error # "" THEN r.error
               ELSE IF opened < h.partitionCount
                    THEN "Failed to open IoStore container file"
               ELSE IF IsEncrypted(h.containerFlags) /\ key = <<>>
                    THEN "Missing decryption key for IoStore container file"
               ELSE ""
       IN  /\ environment' = c.path
           /\ toc' = r.toc
           /\ containerFileHandles' =
                 IF r.error # "" \/ r.hangs THEN containerFileHandles
                 ELSE OpenHandles(containerFileHandles, c, opened)
           /\ decryptionKey' =
                 IF error = "" /\ ~r.hangs /\ IsEncrypted(h.containerFlags) THEN key
                 ELSE decryptionKey
           /\ out' = [op |-> "initialize", error |-> error]
           /\ mounted' = [state |-> IF r.hangs THEN "Hung"
                                    ELSE IF error = "" THEN "Mounted" ELSE "Failed",
                          container |-> c, by |-> "initialize",
                          readOptions |-> readOptions,
                          tocError |-> r.error, keys |-> keys,
                          error |-> error,
                          failedPartition |->
                              IF error = "Failed to open IoStore container file"
                              THEN opened ELSE -1]
           /\ pc' = IF r.hangs THEN "scan" ELSE "done"
    /\ mounts' = mounts + 1
    /\ UNCHANGED <<rd, directoryIndexReader>>

\* A mutant of MemoryMountError: the key is looked up before the partitions
\* are counted.
MemoryMountError_keyFirst(h, key) ==
    IF IsEncrypted(h.containerFlags) /\ key = <<>>
    THEN "Missing decryption key for IoStore environment"
    ELSE IF h.partitionCount > 1
         THEN "This method does not support IoStore environments with multiple partitions"
    ELSE ""

\* What _initialize throws after the TOC is parsed into header h: the
\* partition check, then the key lookup; "" when neither throws.
MemoryMountError(h, key) ==
    IF h.partitionCount > 1
    THEN "This method does not support IoStore environments with multiple partitions"
    ELSE IF IsEncrypted(h.containerFlags) /\ key = <<>>
         THEN "Missing decryption key for IoStore environment"
    ELSE ""

\* FIoStoreReader._initialize(utoc, ucas, path, decryptionKeys, readOptions)
_initialize(c, keys, readOptions, negative) ==
    /\ pc = "idle"
    /\ LET r == TocRead(toc, c, readOptions, negative)
           h == r.toc.header
           key == KeyLookup(keys, h.encryptionKeyGuid)
           error ==
               IF r.error # "" THEN r.error ELSE MemoryMountError(h, key)
       IN  /\ environment' = c.path
           /\ toc' = r.toc
           /\ decryptionKey' =
                 IF error = "" /\ ~r.hangs /\ IsEncrypted(h.containerFlags) THEN key
                 ELSE decryptionKey
           /\ out' = [op |-> "_initialize", error |-> error]
           /\ mounted' = [state |-> IF r.hangs THEN "Hung"
                                    ELSE IF error = "" THEN "Mounted" ELSE "Failed",
                          container |-> c, by |-> "_initialize",
                          readOptions |-> readOptions,
                          tocError |-> r.error, keys |-> keys,
                          error |-> error, failedPartition |-> -1]
           /\ pc' = IF r.hangs THEN "scan" ELSE "done"
    /\ mounts' = mounts + 1
    /\ UNCHANGED <<containerFileHandles, rd, directoryIndexReader>>

\* The caller takes the result of the finished call; the reader is idle again.
Return ==
    /\ pc = "done"
    /\ pc' = "idle"
    /\ rd' = NoRead
    /\ out' = [op |-> "", error |-> ""]
    /\ UNCHANGED <<toc, decryptionKey, containerFileHandles, environment,
                   mounted, mounts, directoryIndexReader>>

(***************************************************************************)
(* FIoStoreReader.read(chunkId).                                           *)
(***************************************************************************)
\* Math.floor(offset / compressionBlockSize)
FirstBlockIndex(offset, compressionBlockSize) == offset \div compressionBlockSize

\* A mutant of LastBlockIndex: the end is not rounded up.
LastBlockIndex_floor(offset, length, compressionBlockSize) ==
    (offset + length) \div compressionBlockSize

\* Math.floor((Utils.alignBigInt(_offset + _length, blockSize) - 1) / blockSize)
LastBlockIndex(offset, length, compressionBlockSize) ==
    (alignBigInt(offset + length, compressionBlockSize) - 1) \div compressionBlockSize

\* The lines of read before its loop: the lookup, the block range, the
\* destination buffer.
ReadStart(chunkId) ==
    /\ pc = "idle"
    /\ LET offsetAndLength == getOffsetAndLength(toc, chunkId)
           offset == OffsetOf(offsetAndLength)
           length == LengthOf(offsetAndLength)
           compressionBlockSize == toc.header.compressionBlockSize
       IN  IF offsetAndLength = <<>>
           THEN /\ rd' = [NoRead EXCEPT !.chunkId = chunkId]
                /\ out' = [op |-> "read", error |-> "Unknown chunk ID"]
                /\ pc' = "done"
           ELSE /\ rd' = [NoRead EXCEPT
                            !.chunkId = chunkId,
                            !.offset = offset,
                            !.length = length,
                            !.firstBlockIndex =
                                FirstBlockIndex(offset, compressionBlockSize),
                            !.lastBlockIndex =
                                LastBlockIndex(offset, length, compressionBlockSize),
                            !.blockIndex =
                                FirstBlockIndex(offset, compressionBlockSize),
                            !.offsetInBlock = offset % compressionBlockSize,
                            !.dstOff = 0,
                            !.remainingSize = length]
                /\ out' = [op |-> "read", error |-> "running"]
                /\ pc' = "loop"
    /\ UNCHANGED <<toc, decryptionKey, containerFileHandles, environment,
                   mounted, mounts, directoryIndexReader>>

\* fs.readSync(fd, buffer, 0, rawSize, position) on the file of handle h: the
\* bytes it returns, at most what the file holds from position on.
BytesRead(h, rawSize, position) ==
    Max(0, Min(rawSize, FileLen(h.file, h.partition) - position))

\* The buffer after fs.readSync filled it from the file of handle h.
FilledBuffer(len, h, rawSize, position) ==
    LET T == h.file
        j == FrameAt(T, h.partition, position)
    IN  [len |-> len, file |-> T, blk |-> j,
         got |-> BytesRead(h, rawSize, position),
         cipher |-> IsEncrypted(T.containerFlags), junk |-> j = 0]

\* Aes.decrypt(buffer, key): a buffer of the same length; whole 16-byte
\* blocks of ciphertext become plaintext under the container's key, anything
\* else becomes junk.
AesDecrypt(buf, key) ==
    IF buf.junk \/ ~buf.cipher
          \/ key # KeyOf(buf.file.encryptionKeyGuid)
    THEN [buf EXCEPT !.junk = TRUE]
    ELSE [buf EXCEPT !.cipher = FALSE, !.got = MaskLow(buf.got, AesBlockSize)]

\* Leading bytes of the buffer that are bytes of its block's stored frame.
FrameBytes(buf) ==
    IF buf.junk \/ buf.cipher \/ buf.blk = 0 THEN 0
    ELSE Min(buf.got,
             FieldCompressedSize(buf.file.compressionBlocks[buf.blk]))

\* Compression.uncompress(method, dst, 0, uncompressedSize, src, 0,
\* compressedSize) returns (TRUE) when the registry knows the method and the
\* source holds the block's whole frame in that format, and throws otherwise.
UncompressOk(method, uncompressedSize, buf, compressedSize) ==
    /\ method \in RegisteredMethods
    /\ buf.blk # 0
    /\ LET T == buf.file
           e == T.compressionBlocks[buf.blk]
       IN  /\ FieldMethod(e) >= 1
           /\ FieldMethod(e) <= Len(T.methodNames)
           /\ T.methodNames[FieldMethod(e)] = method
           /\ compressedSize = FieldCompressedSize(e)
           /\ FrameBytes(buf) >= compressedSize
           /\ uncompressedSize = EntryUncompressedSize(e)

\* Leading bytes of the copy source that are the bytes of the block:
\* the raw buffer of an uncompressed block, or the output of uncompress.
SourceBytes(buf, uncompressed) ==
    IF buf.blk = 0 THEN 0
    ELSE LET e == buf.file.compressionBlocks[buf.blk] IN
         IF uncompressed THEN EntryUncompressedSize(e)
         ELSE IF FieldMethod(e) = 0
              THEN Min(FrameBytes(buf), EntryUncompressedSize(e))
              ELSE 0

\* A mutant of SizeInBlock: the offset in the block is not subtracted.
SizeInBlock_whole(compressionBlockSize, offsetInBlock, remainingSize) ==
    Min(compressionBlockSize, remainingSize)

\* Math.min(compressionBlockSize - offsetInBlock, remainingSize)
SizeInBlock(compressionBlockSize, offsetInBlock, remainingSize) ==
    Min(compressionBlockSize - offsetInBlock, remainingSize)

\* One pass of read's while loop over compressionBlocks[blockIndex].
ReadBlock ==
    /\ pc = "loop"
    /\ rd.blockIndex <= rd.lastBlockIndex
    /\ LET hasEntry == rd.blockIndex + 1 <= Len(toc.compressionBlocks)
           compressionBlock == toc.compressionBlocks[rd.blockIndex + 1]
           compressedSize == EntryCompressedSize(compressionBlock)
           rawSize == align(compressedSize, AesBlockSize)
           allocates == rd.compressedBuffer.len = -1
                        \/ rd.compressedBuffer.len < rawSize
           uncompressedSize == EntryUncompressedSize(compressionBlock)
           uncompressedBuffer == Max(rd.uncompressedBuffer, uncompressedSize)
           partitionSize == toc.header.partitionSize
           partitionIndex == BigDiv(EntryOffset(compressionBlock), partitionSize)
           partitionOffset == BigMod(EntryOffset(compressionBlock), partitionSize)
           hasHandle == partitionIndex + 1 <= Len(containerFileHandles)
           fileHandle == containerFileHandles[partitionIndex + 1]
           bufferLen == IF allocates THEN rawSize ELSE rd.compressedBuffer.len
           filled == FilledBuffer(bufferLen, fileHandle, rawSize, partitionOffset)
           encrypted == IsEncrypted(toc.header.containerFlags)
           compressedBuffer ==
               IF encrypted THEN AesDecrypt(filled, decryptionKey) ELSE filled
           methodIndex == EntryCompressionMethodIndex(compressionBlock)
           compressionMethod ==
               IF methodIndex >= 0 /\ methodIndex + 1 <= Len(toc.compressionMethods)
               THEN toc.compressionMethods[methodIndex + 1] ELSE "undefined"
           sizeInBlock ==
               SizeInBlock(toc.header.compressionBlockSize, rd.offsetInBlock,
                           rd.remainingSize)
           valid == SourceBytes(compressedBuffer, methodIndex # 0)
           error ==
               IF ~hasEntry THEN "TypeError: compressionBlock is undefined"
               ELSE IF allocates /\ rawSize < 0 THEN "RangeError: Buffer.alloc"
               ELSE IF IsZero(partitionSize) THEN "RangeError: Division by zero"
               ELSE IF ~hasHandle THEN "TypeError: fd is undefined"
               ELSE IF rawSize < 0 THEN "RangeError: length"
               ELSE IF encrypted /\ decryptionKey = <<>> THEN "TypeError: key is null"
               ELSE IF methodIndex # 0
                       /\ ~UncompressOk(compressionMethod, uncompressedSize,
                                        compressedBuffer, compressedSize)
                    THEN "Failed uncompressing block"
               ELSE ""
           reached ==
               IF error = "" THEN "copy"
               ELSE IF error = "Failed uncompressing block" THEN "uncompress"
               ELSE IF error = "TypeError: key is null" THEN "decrypt"
               ELSE "entry"
           didRead == reached \in {"decrypt", "uncompress", "copy"}
           entry ==
               [ blockIndex |-> rd.blockIndex,
                 compressedSize |-> compressedSize,
                 rawSize |-> rawSize,
                 read |-> didRead,
                 partitionIndex |-> IF didRead THEN partitionIndex ELSE -1,
                 partitionOffset |-> IF didRead THEN partitionOffset ELSE -1,
                 bytesRead |-> IF didRead THEN filled.got ELSE -1,
                 handlePath |-> IF didRead THEN fileHandle.file.path ELSE <<>>,
                 handlePartition |-> IF didRead THEN fileHandle.partition ELSE -1,
                 decryptLen |->
                     IF encrypted /\ reached \in {"uncompress", "copy"}
                     THEN filled.len ELSE -1,
                 uncompress |->
                     IF methodIndex # 0 /\ reached \in {"uncompress", "copy"}
                     THEN compressionMethod ELSE "",
                 uncompressIn |->
                     IF methodIndex # 0 /\ reached \in {"uncompress", "copy"}
                     THEN compressedSize ELSE -1,
                 uncompressOut |->
                     IF methodIndex # 0 /\ reached \in {"uncompress", "copy"}
                     THEN uncompressedSize ELSE -1,
                 src |->
                     IF reached # "copy" THEN ""
                     ELSE IF methodIndex = 0 THEN "compressedBuffer"
                     ELSE "uncompressedBuffer",
                 offsetInBlock |-> rd.offsetInBlock,
                 sizeInBlock |-> IF reached = "copy" THEN sizeInBlock ELSE -1 ]
           extent ==
               [ at |-> rd.dstOff,
                 n |-> sizeInBlock,
                 path |-> compressedBuffer.file.path,
                 from |-> (compressedBuffer.blk - 1)
                            * compressedBuffer.file.compressionBlockSize
                          + rd.offsetInBlock,
                 good |-> Max(0, Min(rd.offsetInBlock + sizeInBlock, valid)
                                   - rd.offsetInBlock) ]
       IN  IF error # ""
           THEN /\ rd' = [rd EXCEPT
                            !.visited = Append(@, rd.blockIndex),
                            !.log = IF hasEntry THEN Append(@, entry) ELSE @]
                /\ out' = [op |-> "read", error |-> error]
                /\ pc' = "done"
           ELSE /\ rd' = [rd EXCEPT
                            !.visited = Append(@, rd.blockIndex),
                            !.log = Append(@, entry),
                            !.compressedBuffer = compressedBuffer,
                            !.uncompressedBuffer = uncompressedBuffer,
                            !.dst = Append(@, extent),
                            !.offsetInBlock = 0,
                            !.remainingSize = @ - sizeInBlock,
                            !.dstOff = @ + sizeInBlock,
                            !.blockIndex = @ + 1]
                /\ UNCHANGED <<out, pc>>
    /\ UNCHANGED <<toc, decryptionKey, containerFileHandles, environment,
                   mounted, mounts, directoryIndexReader>>

\* A mutant of ReadEnd: read closes the file handles when it returns.
ReadEnd_closing ==
    /\ pc = "loop"
    /\ rd.blockIndex > rd.lastBlockIndex
    /\ pc' = "done"
    /\ out' = [op |-> "read", error |-> ""]
    /\ containerFileHandles' = <<>>
    /\ UNCHANGED <<toc, decryptionKey, environment, rd, mounted, mounts,
                   directoryIndexReader>>

\* The loop condition fails: read returns dst.
ReadEnd ==
    /\ pc = "loop"
    /\ rd.blockIndex > rd.lastBlockIndex
    /\ pc' = "done"
    /\ out' = [op |-> "read", error |-> ""]
    /\ UNCHANGED <<toc, decryptionKey, containerFileHandles, environment, rd,
                   mounted, mounts, directoryIndexReader>>

(***************************************************************************)
(* FIoStoreReader.getFiles() and the lazy directory-index reader.          *)
(***************************************************************************)
\* FIoChunkId.chunkType: the type tag in the last byte of a chunk id.
chunkType(id) == IF id = "b" THEN "BulkData" ELSE "ExportBundleData"

RECURSIVE FilesFrom(_, _, _)
RECURSIVE DirectoriesFrom(_, _, _)
\* FIoDirectoryIndexReader.iterateDirectoryIndex from directory d (0-based)
\* with the path so far: the (filename, tocEntryIndex) pairs the callback is
\* called with, in order; the files of the directory, then its child
\* directories depth-first.
iterateDirectoryIndex(index, d, path) ==
    FilesFrom(index, index.directoryEntries[d + 1].firstFileEntry, path)
        \o DirectoriesFrom(index, index.directoryEntries[d + 1].firstChildEntry, path)
\* The files of a directory, from file entry f on.
FilesFrom(index, f, path) ==
    IF f = None THEN <<>>
    ELSE << [filename |-> path \o index.fileEntries[f + 1].name,
             tocEntryIndex |-> index.fileEntries[f + 1].userData] >>
         \o FilesFrom(index, index.fileEntries[f + 1].nextFileEntry, path)
\* The child directories of a directory, from directory entry d on.
DirectoriesFrom(index, d, path) ==
    IF d = None THEN <<>>
    ELSE iterateDirectoryIndex(index, d,
                               path \o index.directoryEntries[d + 1].name \o "/")
         \o DirectoriesFrom(index, index.directoryEntries[d + 1].nextSiblingEntry,
                            path)

\* new FIoDirectoryIndexReader(buffer, decryptionKey)
FIoDirectoryIndexReader(buffer, key) == [index |-> buffer.index, key |-> key]

\* Lazy.value with the initializer of directoryIndexReader: the Lazy and the
\* TOC after the access, and what the initializer threw.  The initializer
\* runs once; it reads this.toc.header, which is undefined before the first
\* parse, and parses the blob, which fails on bytes that are no directory
\* index.
LazyValue(lazy, t, key) ==
    IF lazy.initialized THEN [lazy |-> lazy, toc |-> t, error |-> ""]
    ELSE IF ~t.hasHeader THEN [lazy |-> lazy, toc |-> t, error |-> "TypeError"]
    ELSE IF "Indexed" \in t.header.containerFlags /\ t.directoryIndexBuffer # <<>>
    THEN IF ~t.directoryIndexBuffer.intact
         THEN [lazy |-> lazy, toc |-> t, error |-> "ParserException"]
         ELSE [lazy |-> [initialized |-> TRUE,
                         value |-> FIoDirectoryIndexReader(t.directoryIndexBuffer,
                                                           key)],
               toc |-> [t EXCEPT !.directoryIndexBuffer = <<>>],
               error |-> ""]
    ELSE [lazy |-> [initialized |-> TRUE, value |-> <<>>], toc |-> t, error |-> ""]

\* A mutant of ListedFiles: every entry is listed.
ListedFiles_all(entries, chunkIds, path) ==
    [k \in 1..Len(entries) |->
        [filename |-> entries[k].filename, environment |-> path,
         chunkId |-> chunkIds[entries[k].tocEntryIndex + 1]]]

RECURSIVE ListedFiles(_, _, _)
\* The callback of getFiles over the entries of the traversal: a GameFile
\* for each entry whose chunk id has the type ExportBundleData.
ListedFiles(entries, chunkIds, path) ==
    IF entries = <<>> THEN <<>>
    ELSE LET e == Head(entries)
             chunkId == chunkIds[e.tocEntryIndex + 1]
         IN  (IF chunkType(chunkId) = "ExportBundleData"
              THEN << [filename |-> e.filename, environment |-> path,
                       chunkId |-> chunkId] >>
              ELSE <<>>)
             \o ListedFiles(Tail(entries), chunkIds, path)

\* FIoStoreReader.getFiles()
getFiles ==
    /\ pc = "idle"
    /\ LET access == LazyValue(directoryIndexReader, toc, decryptionKey)
           entries ==
               IF access.error # "" \/ access.lazy.value = <<>> THEN <<>>
               ELSE iterateDirectoryIndex(access.lazy.value.index, 0,
                                          access.lazy.value.index.mountPoint)
           \* this.toc.chunkIds[tocEntryIndex] is undefined
           undefined == \E k \in 1..Len(entries) :
                           entries[k].tocEntryIndex + 1 > Len(access.toc.chunkIds)
       IN  /\ directoryIndexReader' = access.lazy
           /\ toc' = access.toc
           /\ out' = IF access.error # ""
                     THEN [op |-> "getFiles", error |-> access.error, files |-> <<>>]
                     ELSE IF undefined
                     THEN [op |-> "getFiles", error |-> "TypeError", files |-> <<>>]
                     ELSE [op |-> "getFiles", error |-> "",
                           files |-> ListedFiles(entries, access.toc.chunkIds,
                                                 environment)]
    /\ pc' = "done"
    /\ UNCHANGED <<decryptionKey, containerFileHandles, environment, rd, mounted,
                   mounts>>

(***************************************************************************)
(* Specifications.                                                         *)
(***************************************************************************)
\* new Lazy(initializer): not initialized, no value (<<>> is null).
NewLazy == [initialized |-> FALSE, value |-> <<>>]

\* new FIoStoreReader()
Init ==
    /\ toc = NewToc
    /\ decryptionKey = <<>>
    /\ containerFileHandles = <<>>
    /\ environment = <<>>
    /\ pc = "idle"
    /\ rd = NoRead
    /\ out = [op |-> "", error |-> ""]
    /\ mounted = [state |-> "Unmounted", container |-> NoContainer, by |-> "",
                  readOptions |-> {},
                  tocError |-> "", keys |-> {}, error |-> "",
                  failedPartition |-> -1]
    /\ mounts = 0
    /\ directoryIndexReader = NewLazy

KeyMaps == SUBSET Guids

\* What readBuffer may do with a negative length.
NegativeReads == {"throws", "rewinds"}

\* The outcomes of readBuffer that the parse of image c under readOptions
\* can meet.
NegativeReadsOf(c, readOptions) ==
    IF /\ ReadDirectoryIndex \in readOptions
       /\ "Indexed" \in c.containerFlags
       /\ ToInt32(c.directoryIndexSize)[1] < 0
    THEN NegativeReads ELSE {"throws"}

MountFromFiles(containers, keyMaps, options, limit) ==
    /\ mounts < limit
    /\ \E c \in containers, keys \in keyMaps, readOptions \in options :
          \E negative \in NegativeReadsOf(c, readOptions) :
             initialize(c, keys, readOptions, negative)

MountFromMemory(containers, keyMaps, options, limit) ==
    /\ mounts < limit
    /\ \E c \in containers, keys \in keyMaps, readOptions \in options :
          \E negative \in NegativeReadsOf(c, readOptions) :
             _initialize(c, keys, readOptions, negative)

Read == \E chunkId \in ChunkIdVals : ReadStart(chunkId)

\* One reader, mounted up to MaxMounts times on the header and index
\* families, and read in between.
Next ==
    \/ MountFromFiles(LifecycleContainers, KeyMaps, {ReadAll}, MaxMounts)
    \/ MountFromMemory(LifecycleContainers, KeyMaps, {ReadAll}, MaxMounts)
    \/ Read
    \/ ReadBlock
    \/ ReadEnd
    \/ Return

Spec == Init /\ [][Next]_vars

\* One reader, mounted once on a container of the layout and kind families,
\* and read.
NextRead ==
    \/ MountFromFiles(ReadContainers, KeyMaps, {ReadAll}, 1)
    \/ MountFromMemory(ReadContainers, KeyMaps, {ReadAll}, 1)
    \/ Read
    \/ ReadBlock
    \/ ReadEnd
    \/ Return

SpecRead == Init /\ [][NextRead]_vars

\* Every set of read options.
AllReadOptions == SUBSET ReadAll

\* One reader, mounted up to MaxMounts times on the parser's containers under
\* every set of read options, its files listed in between.
NextToc ==
    \/ MountFromFiles(TocContainers, {{}}, AllReadOptions, MaxMounts)
    \/ getFiles
    \/ Return

SpecToc == Init /\ [][NextToc]_vars

(***************************************************************************)
(* What a container holds, as its writer meant it.                         *)
(***************************************************************************)
\* The read that is running or has finished found its chunk in the index.
ReadFound ==
    \/ pc = "loop"
    \/ pc = "done" /\ out.op = "read" /\ out.error # "Unknown chunk ID"

\* The read has returned its buffer.
ReadReturned == pc = "done" /\ out.op = "read" /\ out.error = ""

\* The header of the image passes the parser's checks.
HeaderAccepted(c) ==
    /\ c.tocMagic = TocMagicImg
    /\ c.tocHeaderSize = 144
    /\ c.tocCompressedBlockEntrySize = 12
    /\ c.version >= Version_DirectoryIndex

\* Chunk i (1-based) of container c lies in blocks that hold it: every block
\* it overlaps but the last holds compressionBlockSize uncompressed bytes, and
\* the last holds the chunk's end.
ChunkStored(c, i) ==
    LET off == WrittenOffset(c.chunkOffsetLengths[i])
        len == WrittenLength(c.chunkOffsetLengths[i])
        bs == c.compressionBlockSize
        first == off \div bs
        last == (off + len - 1) \div bs
    IN  len > 0 =>
          /\ last + 1 <= Len(c.compressionBlocks)
          /\ \A b \in first..(last - 1) :
                FieldUncompressedSize(c.compressionBlocks[b + 1]) = bs
          /\ FieldUncompressedSize(c.compressionBlocks[last + 1])
                >= ((off + len - 1) % bs) + 1

\* Block j (1-based) of container c is stored the way its entry says, in a
\* partition the header counts.
BlockStored(c, j) ==
    LET e == c.compressionBlocks[j] IN
    /\ FieldMethod(e) <= Len(c.methodNames)
    /\ FieldMethod(e) >= 1 => c.methodNames[FieldMethod(e)] \in RegisteredMethods
    /\ FieldMethod(e) = 0 => FieldCompressedSize(e) = FieldUncompressedSize(e)
    /\ ~IsZero(WriterPartitionSize(c))
    /\ BigDiv(EntryOffset(e), WriterPartitionSize(c)) < WriterPartitionCount(c)

\* A well-formed container: an accepted header, a positive block size, every
\* chunk and block stored, every partition file present and whole.
WellFormed(c) ==
    /\ HeaderAccepted(c)
    /\ c.compressionBlockSize > 0
    /\ \A i \in 1..Len(c.chunkIds) : ChunkStored(c, i)
    /\ \A j \in 1..Len(c.compressionBlocks) : BlockStored(c, j)
    /\ c.missing = {}
    /\ c.truncate = 0

\* dst holds, byte for byte, the bytes [off, off + len) of the logical
\* uncompressed stream of container c: the copies tile [0, len) and each
\* copied byte k is byte off + k of the stream.
DstIsStreamRange(dst, c, off, len) ==
    /\ \A k \in 1..Len(dst) :
          /\ dst[k].n >= 0
          /\ dst[k].at = IF k = 1 THEN 0 ELSE dst[k - 1].at + dst[k - 1].n
          /\ dst[k].n > 0 =>
                /\ dst[k].path = c.path
                /\ dst[k].from = off + dst[k].at
                /\ dst[k].good = dst[k].n
    /\ len = IF dst = <<>> THEN 0 ELSE dst[Len(dst)].at + dst[Len(dst)].n

RECURSIVE SumSizes(_, _)
\* Sum of sizeInBlock over the first k passes of the loop.
SumSizes(log, k) ==
    IF k = 0 THEN 0 ELSE SumSizes(log, k - 1) + Max(0, log[k].sizeInBlock)

(***************************************************************************)
(* Claims.                                                                 *)
(***************************************************************************)
\* C1: for a well-formed mounted container, read(chunk_id) returns for every
\* chunk id of the TOC a buffer of exactly `length` bytes whose byte k is
\* byte offset + k of the logical uncompressed stream.
C1_ReadReturnsStreamRange ==
    ( /\ pc = "done" /\ out.op = "read"
      /\ mounted.state = "Mounted"
      /\ WellFormed(mounted.container)
      /\ \E i \in 1..Len(mounted.container.chunkIds) :
            mounted.container.chunkIds[i] = rd.chunkId )
    => /\ out.error = ""
       /\ \E i \in 1..Len(mounted.container.chunkIds) :
            /\ mounted.container.chunkIds[i] = rd.chunkId
            /\ rd.length = WrittenLength(mounted.container.chunkOffsetLengths[i])
            /\ DstIsStreamRange(rd.dst, mounted.container,
                  WrittenOffset(mounted.container.chunkOffsetLengths[i]),
                  WrittenLength(mounted.container.chunkOffsetLengths[i]))

\* The same for the containers that meet neither of the two faults that break
\* C1: mounted from files, and no compressed size of 2^23 or more.
ReadReturnsStreamRangeFromFiles ==
    ( /\ mounted.by = "initialize"
      /\ \A j \in 1..Len(mounted.container.compressionBlocks) :
            FieldCompressedSize(mounted.container.compressionBlocks[j]) < HighBitSize )
    => C1_ReadReturnsStreamRange

\* The record of the offset/length table that the running read looked up.
ReadRecord == getOffsetAndLength(toc, rd.chunkId)

C3_LoopAccounting ==
    ReadFound =>
       /\ rd.dstOff + rd.remainingSize = rd.length
       /\ \A k \in 1..Len(rd.log) :
             /\ rd.log[k].sizeInBlock # -1 =>
                   rd.log[k].sizeInBlock =
                      Min(toc.header.compressionBlockSize - rd.log[k].offsetInBlock,
                          rd.length - SumSizes(rd.log, k - 1))
             /\ k > 1 => rd.log[k].offsetInBlock = 0
       /\ ReadReturned =>
             /\ rd.remainingSize = 0
             /\ rd.dstOff = rd.length
             /\ SumSizes(rd.log, Len(rd.log)) = rd.length

\* A read that started in the middle of a block has returned after two or
\* more passes.
C3_Witness ==
    /\ ReadReturned
    /\ Len(rd.log) >= 2
    /\ rd.log[1].offsetInBlock > 0
    /\ rd.log[1].sizeInBlock > 0
    /\ rd.log[Len(rd.log)].sizeInBlock > 0

\* The TOC of the mounted container has been parsed into the reader's tables.
TocParsed ==
    /\ mounted.state \in {"Mounted", "Failed"}
    /\ mounted.tocError = ""

\* The chunk ids of sequence ids are pairwise distinct.
Distinct(ids) == \A i, j \in 1..Len(ids) : ids[i] = ids[j] => i = j

\* C4: after a TOC with pairwise distinct chunk ids is parsed,
\* getOffsetAndLength(chunkIds[i]) is the record at position i of the
\* offset/length table for every position i, and null for every chunk id that
\* is not in the TOC.
C4_OffsetAndLengthRoundTrip ==
    (TocParsed /\ Distinct(mounted.container.chunkIds)) =>
       LET c == mounted.container IN
       /\ \A i \in 1..Len(c.chunkIds) :
             /\ getOffsetAndLength(toc, c.chunkIds[i]) = c.chunkOffsetLengths[i]
             /\ OffsetOf(getOffsetAndLength(toc, c.chunkIds[i]))
                   = WrittenOffset(c.chunkOffsetLengths[i])
             /\ LengthOf(getOffsetAndLength(toc, c.chunkIds[i]))
                   = WrittenLength(c.chunkOffsetLengths[i])
       /\ \A id \in ChunkIdVals :
             (\A i \in 1..Len(c.chunkIds) : c.chunkIds[i] # id)
                => getOffsetAndLength(toc, id) = <<>>

\* The same on a reader whose TOC object has parsed one TOC only.
OffsetAndLengthRoundTripFirstMount == mounts <= 1 => C4_OffsetAndLengthRoundTrip

\* C5: getTocEntryIndex(chunk_id) is the position i of chunk_id in the TOC for
\* every chunk id of the TOC, position 0 included, and -1 only for chunk ids
\* that are absent from the TOC.
C5_EntryIndexOfEveryPosition ==
    (TocParsed /\ Distinct(mounted.container.chunkIds)) =>
       LET c == mounted.container IN
       /\ \A i \in 1..Len(c.chunkIds) :
             getTocEntryIndex(toc, c.chunkIds[i]) = i - 1
       /\ \A id \in ChunkIdVals :
             getTocEntryIndex(toc, id) = -1
                => \A i \in 1..Len(c.chunkIds) : c.chunkIds[i] # id

\* The same for every position but 0.
EntryIndexOfLaterPositions ==
    (TocParsed /\ Distinct(mounted.container.chunkIds)) =>
       LET c == mounted.container IN
       /\ \A i \in 2..Len(c.chunkIds) :
             getTocEntryIndex(toc, c.chunkIds[i]) = i - 1
       /\ \A id \in ChunkIdVals :
             (\A i \in 1..Len(c.chunkIds) : c.chunkIds[i] # id)
                => getTocEntryIndex(toc, id) = -1

\* The messages of the parser's header checks.
HeaderMessages ==
    { "TOC header magic mismatch", "TOC header size mismatch",
      "TOC compressed block entry size mismatch", "Outdated TOC header version" }

\* A mount call returns.
MountStep == pc = "idle" /\ pc' = "done" /\ out'.op \in {"initialize", "_initialize"}

\* C6: parsing rejects with an error, and builds no chunk tables, every
\* sidecar whose magic differs from -==--==--==--==-, whose tocHeaderSize is
\* not 144, whose tocCompressedBlockEntrySize is not 12, or whose version is
\* below DirectoryIndex (2).
C6_BadHeaderRejected ==
    [][ (MountStep /\ ~HeaderAccepted(mounted'.container)) =>
           /\ out'.error \in HeaderMessages
           /\ mounted'.tocError = out'.error
           /\ mounted'.state = "Failed"
           /\ toc'.hasTables = toc.hasTables
           /\ toc'.chunkIds = toc.chunkIds
           /\ toc'.chunkOffsetLengths = toc.chunkOffsetLengths
           /\ toc'.compressionBlocks = toc.compressionBlocks
           /\ toc'.compressionMethods = toc.compressionMethods
           /\ toc'.chunkIdToIndex = toc.chunkIdToIndex ]_vars

\* A new reader has rejected a sidecar for its version, the last of the
\* checks, and holds no tables.
C6_Witness ==
    /\ pc = "done"
    /\ out.error = "Outdated TOC header version"
    /\ mounted.container.version = Version_Initial
    /\ mounted.state = "Failed"
    /\ ~toc.hasTables
    /\ toc.chunkIdToIndex = <<>>

\* C7: a TOC whose version byte is above PartitionSize (3), any value in
\* 4..255, is rejected with an error and is never mounted.
C7_UnknownVersionRejected ==
    (mounted.state # "Unmounted" /\ mounted.container.version > Version_PartitionSize)
       => /\ mounted.state = "Failed"
          /\ mounted.tocError # ""
          /\ ~toc.hasTables

\* C8: after parsing a TOC of version DirectoryIndex (2) the header reports
\* partitionCount = 1 and partitionSize = 0x0FFFFFFFFFFFFFFF whatever the
\* header bytes hold; for version PartitionSize (3) both are the values read
\* from the header.
C8_PartitionFields ==
    TocParsed =>
       LET c == mounted.container IN
       /\ c.version = Version_DirectoryIndex =>
             /\ toc.header.partitionCount = 1
             /\ toc.header.partitionSize = <<2 ^ 30 - 1, 2 ^ 30 - 1>>
       /\ c.version = Version_PartitionSize =>
             /\ toc.header.partitionCount = c.partitionCount
             /\ toc.header.partitionSize = c.partitionSize

\* A version 2 TOC whose header bytes say two partitions of 32 bytes has been
\* parsed.
C8_Witness ==
    /\ TocParsed
    /\ mounted.container.version = Version_DirectoryIndex
    /\ mounted.container.partitionCount = 2
    /\ mounted.container.partitionSize = U64(0, 32)
    /\ toc.hasTables

\* C9: for every block processed by read, rawSize is the smallest multiple of
\* 16 that is >= compressedSize: 0 <= rawSize - compressedSize < 16.
C9_RawSizeIsSmallestMultiple ==
    ReadFound =>
       \A k \in 1..Len(rd.log) :
          /\ rd.log[k].rawSize % AesBlockSize = 0
          /\ 0 <= rd.log[k].rawSize - rd.log[k].compressedSize
          /\ rd.log[k].rawSize - rd.log[k].compressedSize < AesBlockSize

\* Compressed sizes of the 24-bit field: the small ones and both ends of the
\* upper half.
CompressedSizeSamples ==
    (0 .. 48) \cup ((2 ^ 23 - 17) .. (2 ^ 23 + 17)) \cup ((2 ^ 24 - 17) .. (2 ^ 24 - 1))

\* C10: for every block processed by read, and for every compressedSize in
\* [0, 2^24), rawSize is a multiple of 16 and the length of the buffer handed
\* to AES decryption is a multiple of 16.
C10_AesAlignment ==
    /\ \A cs \in CompressedSizeSamples : align(cs, AesBlockSize) % AesBlockSize = 0
    /\ ReadFound =>
          \A k \in 1..Len(rd.log) :
             /\ rd.log[k].rawSize % AesBlockSize = 0
             /\ rd.log[k].decryptLen # -1 =>
                   /\ rd.log[k].decryptLen % AesBlockSize = 0
                   /\ rd.log[k].decryptLen >= rd.log[k].rawSize

\* A block whose compressed size is no multiple of 16 has been read and
\* decrypted.
C10_Witness ==
    /\ ReadFound
    /\ \E k \in 1..Len(rd.log) :
          /\ rd.log[k].decryptLen # -1
          /\ rd.log[k].compressedSize % AesBlockSize # 0

\* A handle on the content file of partition i of container c: <path>.ucas
\* for i = 0, <path>_s{i}.ucas for i > 0.
ContentFileHandle(c, i) ==
    [ file |-> c, partition |-> i,
      name |-> IF i = 0 THEN <<c.path, ".ucas">> ELSE <<c.path, "_s", i, ".ucas">> ]

\* A well-formed container is mounted.
MountedWellFormed == mounted.state = "Mounted" /\ WellFormed(mounted.container)

\* Block b (0-based) of the mounted container is routed as its writer laid it
\* out: the reader holds a handle of partition L div partitionSize of this
\* container, the index is below partitionCount, division and remainder
\* recompose L, and a partition read of the block used that handle at
\* L mod partitionSize.
RoutedToPartition(entry) ==
    LET c == mounted.container
        L == EntryOffset(c.compressionBlocks[entry.blockIndex + 1])
        ps == WriterPartitionSize(c)
        index == BigDiv(L, ps)
        position == BigMod(L, ps)
    IN  /\ index >= 0 /\ index < WriterPartitionCount(c)
        /\ IF ps[1] > 0 THEN index = 0 /\ position = L
           ELSE index * ps[2] + position = L /\ position < ps[2]
        /\ index + 1 <= Len(containerFileHandles)
        /\ containerFileHandles[index + 1] = ContentFileHandle(c, index)
        /\ entry.read =>
              /\ entry.partitionIndex = index
              /\ entry.partitionOffset = position
              /\ entry.handlePath = c.path
              /\ entry.handlePartition = index

\* C11: for every block with logical offset L, read takes the data from the
\* file handle of partition L div partitionSize at file offset
\* L mod partitionSize, the two recompose L, and for a well-formed container
\* the partition index is in [0, partitionCount), so a handle opened at mount
\* exists for it.
C11_PartitionRouting ==
    (MountedWellFormed /\ ReadFound) =>
       \A k \in 1..Len(rd.log) : RoutedToPartition(rd.log[k])

\* The same for the containers mounted from files.
PartitionRoutingFromFiles == mounted.by = "initialize" => C11_PartitionRouting

\* The block of the mounted container that log entry `entry` is about.
BlockOf(entry) == mounted.container.compressionBlocks[entry.blockIndex + 1]

\* The method table the parser builds for container c: "None", then its names.
MethodsOf(c) == <<"None">> \o c.methodNames

\* The pass of the loop that made log entry `entry` got as far as choosing
\* the source of the copy: it read the block and, if flagged, decrypted it.
ReachedSource(entry) == entry.uncompress # "" \/ entry.src # ""

\* C12: a block with compressionMethodIndex 0 never invokes the compression
\* registry and its copy source is the (decrypted) raw buffer; a block with
\* index i > 0 is decompressed with method name methods[i], consuming exactly
\* compressedSize input bytes and producing uncompressedSize bytes; an index
\* outside [0, |methods|) makes read fail instead of returning data.
C12_MethodTableIndexing ==
    (TocParsed /\ ReadFound) =>
       \A k \in 1..Len(rd.log) :
          LET entry == rd.log[k]
              i == FieldMethod(BlockOf(entry))
              methods == MethodsOf(mounted.container)
          IN  /\ i = 0 =>
                    /\ entry.uncompress = ""
                    /\ entry.uncompressIn = -1
                    /\ entry.src \in {"", "compressedBuffer"}
              /\ (i > 0 /\ i < Len(methods) /\ ReachedSource(entry)) =>
                    /\ entry.uncompress = methods[i + 1]
                    /\ entry.uncompressIn = FieldCompressedSize(BlockOf(entry))
                    /\ entry.uncompressOut = FieldUncompressedSize(BlockOf(entry))
                    /\ entry.src \in {"", "uncompressedBuffer"}
              /\ i >= Len(methods) =>
                    /\ entry.src = ""
                    /\ entry.sizeInBlock = -1
                    /\ k = Len(rd.log)
                    /\ pc = "done" /\ out.error # ""
                    /\ Len(rd.dst) = k - 1

\* A read has copied out a raw block and then a decompressed one.
C12_Witness ==
    /\ ReadReturned
    /\ Len(rd.log) >= 2
    /\ rd.log[1].src = "compressedBuffer"
    /\ rd.log[2].src = "uncompressedBuffer"
    /\ rd.log[2].uncompress = "Zlib"

\* A read has failed on a block whose method byte is 0x80, after a block it
\* had decompressed.
C12_WitnessOutside ==
    /\ pc = "done" /\ out.op = "read" /\ out.error = "Failed uncompressing block"
    /\ Len(rd.log) >= 2
    /\ rd.log[1].src = "uncompressedBuffer"
    /\ FieldMethod(BlockOf(rd.log[2])) = 128

\* In the pass that made log entry `entry`, decryption ran if and only if the
\* mounted container is flagged Encrypted, and it ran on a block that had
\* been read from its partition, before the source of the copy was chosen.
DecryptedWhenFlagged(entry) ==
    LET flagged == IsEncrypted(mounted.container.containerFlags) IN
    /\ ~flagged => entry.decryptLen = -1
    /\ (flagged /\ ReachedSource(entry)) => entry.decryptLen # -1
    /\ entry.decryptLen # -1 => entry.read /\ entry.bytesRead >= 0

\* C13: for every block processed by read, decryption is performed if and
\* only if the container has the Encrypted flag, after the partition read and
\* before decompression or copy-out, and its input is exactly the rawSize
\* bytes read for that block, also for a later block whose rawSize is smaller
\* than that of an earlier block.
C13_DecryptsRawSizeBytes ==
    (TocParsed /\ ReadFound) =>
       \A k \in 1..Len(rd.log) :
          /\ DecryptedWhenFlagged(rd.log[k])
          /\ rd.log[k].decryptLen # -1 => rd.log[k].decryptLen = rd.log[k].rawSize

\* The same without the length of the input.
DecryptionOnlyWhenFlagged ==
    (TocParsed /\ ReadFound) =>
       \A k \in 1..Len(rd.log) : DecryptedWhenFlagged(rd.log[k])

\* C14: if a partition read returns fewer than rawSize bytes for any block,
\* read fails with an error and returns no buffer: it never goes on to use
\* the partially filled scratch buffer.
C14_ShortReadFails ==
    ReadFound =>
       \A k \in 1..Len(rd.log) :
          (rd.log[k].read /\ rd.log[k].bytesRead < rd.log[k].rawSize) =>
             /\ k = Len(rd.log)
             /\ rd.log[k].decryptLen = -1
             /\ rd.log[k].uncompress = ""
             /\ rd.log[k].src = ""
             /\ pc = "done" /\ out.error # ""

\* A read of a truncated content file returned a buffer whose last bytes are
\* not bytes of the chunk. (Never true if short reads are errors.)
ShortReadReturnsBuffer ==
    /\ ReadReturned
    /\ mounted.container.truncate > 0
    /\ \E k \in 1..Len(rd.dst) : rd.dst[k].good < rd.dst[k].n

\* A read of chunk id rd.chunkId is running or has ended.
ReadCalled == pc = "loop" \/ (pc = "done" /\ out.op = "read")

\* The read failed as an unknown chunk before it touched any block: no entry
\* accessed, nothing read, decrypted, decompressed or copied.
FailedAsUnknownChunk ==
    /\ pc = "done"
    /\ out.error = "Unknown chunk ID"
    /\ rd.visited = <<>>
    /\ rd.log = <<>>
    /\ rd.dst = <<>>

C15_WitnessUnmounted == FailedAsUnknownChunk /\ mounted.state = "Unmounted"

\* The messages of the two mount entry points for a key that is not in the map.
MissingKeyMessages ==
    { "Missing decryption key for IoStore container file",
      "Missing decryption key for IoStore environment" }

\* The last mount was of a container flagged Encrypted.
MountedEncrypted == IsEncrypted(mounted.container.containerFlags)

\* C16: mounting a container flagged Encrypted fails with the missing-key
\* error when the key map has no entry for encryptionKeyGuid; mounting a
\* container without the flag never consults the key map; after every
\* successful mount the reader holds a decryption key if and only if the
\* Encrypted flag is set.
C16_KeyHeldIffEncrypted ==
    TocParsed =>
       /\ (MountedEncrypted /\ mounted.container.encryptionKeyGuid \notin mounted.keys)
             => /\ mounted.state = "Failed"
                /\ \/ mounted.error \in MissingKeyMessages
                   \/ mounted.error = "Failed to open IoStore container file"
                   \/ (mounted.by = "_initialize" /\ toc.header.partitionCount > 1)
       /\ ~MountedEncrypted => mounted.error \notin MissingKeyMessages
       /\ mounted.state = "Mounted" =>
             /\ MountedEncrypted =>
                   decryptionKey = KeyOf(mounted.container.encryptionKeyGuid)
             /\ ~MountedEncrypted => decryptionKey = <<>>

\* The same on a reader mounted for the first time.
KeyHeldIffEncryptedFirstMount == mounts <= 1 => C16_KeyHeldIffEncrypted

\* The message of _initialize for a container of more than one partition.
UnsupportedMessage ==
    "This method does not support IoStore environments with multiple partitions"

\* C17: the in-memory mount (_initialize) fails with the unsupported error
\* for every TOC whose effective partitionCount is greater than 1, before the
\* decryption key is looked up; a version-2 TOC is never rejected for this
\* reason, its partitionCount being synthesized to 1.
C17_MemoryMountSinglePartition ==
    (TocParsed /\ mounted.by = "_initialize") =>
       /\ WriterPartitionCount(mounted.container) > 1 =>
             /\ mounted.state = "Failed"
             /\ mounted.error = UnsupportedMessage
       /\ WriterPartitionCount(mounted.container) <= 1 =>
             mounted.error # UnsupportedMessage
       /\ mounted.container.version = Version_DirectoryIndex =>
             mounted.error # UnsupportedMessage

\* _initialize has rejected an encrypted two-partition TOC whose key is not
\* in the map.
C17_Witness ==
    /\ pc = "done" /\ out.op = "_initialize"
    /\ out.error = UnsupportedMessage
    /\ MountedEncrypted
    /\ mounted.container.encryptionKeyGuid \notin mounted.keys
    /\ mounted.container.partitionCount = 2

\* _initialize has mounted a version-2 TOC whose header bytes say two
\* partitions.
C17_WitnessVersion2 ==
    /\ pc = "done" /\ out.op = "_initialize" /\ out.error = ""
    /\ mounted.container.version = Version_DirectoryIndex
    /\ mounted.container.partitionCount = 2

\* The reader holds a data source of the mounted container for every
\* partition index in [0, partitionCount).
DataSourceForEveryPartition ==
    \A i \in 0..(toc.header.partitionCount - 1) :
       /\ i + 1 <= Len(containerFileHandles)
       /\ containerFileHandles[i + 1] = ContentFileHandle(mounted.container, i)

\* C18: after the in-memory mount (_initialize) succeeds on a
\* single-partition container, read(chunk_id) succeeds for every chunk id of
\* the TOC and takes the block data of partition 0 from the supplied bytes: in
\* the Mounted state a data source exists for every partition index in
\* [0, partitionCount), whichever mount entry point was used.
C18_MountedHasDataSources ==
    mounted.state = "Mounted" =>
       /\ DataSourceForEveryPartition
       /\ ( /\ mounted.by = "_initialize"
            /\ WellFormed(mounted.container)
            /\ pc = "done" /\ out.op = "read"
            /\ \E i \in 1..Len(mounted.container.chunkIds) :
                  mounted.container.chunkIds[i] = rd.chunkId )
          => /\ out.error = ""
             /\ \A k \in 1..Len(rd.log) :
                   /\ rd.log[k].handlePath = mounted.container.path
                   /\ rd.log[k].handlePartition = 0

\* The same for the mounts from files only.
MountedFromFilesHasDataSources ==
    mounted.by = "initialize" => C18_MountedHasDataSources

\* A call of initialize returns.
InitializeStep == pc = "idle" /\ pc' = "done" /\ out'.op = "initialize"

\* Handle i (0-based) of the reader after the step is a handle that the step
\* opened on the content file of partition i of the container it mounts:
\* <path>.ucas for i = 0, <path>_s{i}.ucas for i > 0.
OpenedByStep(i) ==
    /\ i + 1 <= Len(containerFileHandles')
    /\ containerFileHandles'[i + 1] = ContentFileHandle(mounted'.container, i)

\* Handle slot i (0-based) of the reader is the same before and after the step.
UntouchedByStep(i) ==
    /\ (i + 1 <= Len(containerFileHandles')) = (i + 1 <= Len(containerFileHandles))
    /\ i + 1 <= Len(containerFileHandles)
          => containerFileHandles'[i + 1] = containerFileHandles[i + 1]

\* The partitions a handle array of length n has slots for.
Slots(n) == 0..(n - 1)

\* C19: a successful initialize opens exactly partitionCount file handles, in
\* ascending partition order, handle i on the content file of partition i; if
\* one of these files cannot be opened the mount fails with the open error
\* naming that file, and the remaining partitions are not opened.
C19_OpensEveryPartitionInOrder ==
    [][ (InitializeStep /\ mounted'.tocError = "") =>
          LET c == mounted'.container
              n == WriterPartitionCount(c)
              absent == {i \in Slots(n) : i \in c.missing}
              slots == Slots(Max(n, Max(Len(containerFileHandles),
                                        Len(containerFileHandles'))))
          IN  /\ absent = {} =>
                    /\ mounted'.error # "Failed to open IoStore container file"
                    /\ mounted'.failedPartition = -1
                    /\ \A i \in slots :
                          IF i < n THEN OpenedByStep(i) ELSE UntouchedByStep(i)
              /\ absent # {} =>
                    /\ mounted'.state = "Failed"
                    /\ mounted'.error = "Failed to open IoStore container file"
                    /\ mounted'.failedPartition \in absent
                    /\ \A i \in absent : mounted'.failedPartition <= i
                    /\ \A i \in slots :
                          IF i < mounted'.failedPartition
                          THEN OpenedByStep(i) ELSE UntouchedByStep(i)
              /\ mounted'.state = "Mounted" => absent = {} ]_vars

\* initialize has failed on the second content file of a two-partition
\* container after opening the first.
C19_Witness ==
    /\ pc = "done" /\ out.op = "initialize"
    /\ out.error = "Failed to open IoStore container file"
    /\ mounted.failedPartition = 1
    /\ Len(containerFileHandles) >= 1
    /\ containerFileHandles[1] = ContentFileHandle(mounted.container, 0)

\* initialize has mounted a two-partition container.
C19_WitnessMounted ==
    /\ pc = "done" /\ out.op = "initialize" /\ out.error = ""
    /\ toc.header.partitionCount = 2
    /\ Len(containerFileHandles) = 2

\* A step of read: its start, a pass of its loop, or its return.
ReadStep ==
    \/ pc = "idle" /\ out'.op = "read"
    \/ pc = "loop"
    \/ pc = "done" /\ out.op = "read"

\* C20: every read, successful or failing, leaves the mounted container
\* unchanged: chunk ids, offset/length table, compression blocks, method
\* names, chunk index, header, decryption key and file handles are the same
\* after any sequence of reads as right after mount, and the container stays
\* Mounted.
C20_ReadLeavesContainerUnchanged ==
    [][ ReadStep =>
          /\ toc'.chunkIds = toc.chunkIds
          /\ toc'.chunkOffsetLengths = toc.chunkOffsetLengths
          /\ toc'.compressionBlocks = toc.compressionBlocks
          /\ toc'.compressionMethods = toc.compressionMethods
          /\ toc'.chunkIdToIndex = toc.chunkIdToIndex
          /\ toc'.header = toc.header
          /\ toc' = toc
          /\ decryptionKey' = decryptionKey
          /\ containerFileHandles' = containerFileHandles
          /\ environment' = environment
          /\ mounted'.state = mounted.state ]_vars

\* A read of two or more blocks of an encrypted container has returned, and
\* the reader still holds the key and the handle of the container.
C20_Witness ==
    /\ ReadReturned
    /\ Len(rd.log) >= 2
    /\ mounted.state = "Mounted"
    /\ MountedEncrypted
    /\ decryptionKey # <<>>
    /\ Len(containerFileHandles) >= 1

\* A read has failed in its loop on a mounted container.
C20_WitnessFailing ==
    /\ pc = "done" /\ out.op = "read"
    /\ out.error = "Failed uncompressing block"
    /\ mounted.state = "Mounted"

\* C24: when the same chunk id occurs at two positions i < j of the TOC's
\* chunk-id table, the later wins: after parsing, the chunk index maps that
\* id to j and getOffsetAndLength returns the pair stored at position j.
C24_LaterChunkIdWins ==
    TocParsed =>
       LET c == mounted.container IN
       \A i, j \in 1..Len(c.chunkIds) :
          ( /\ i < j
            /\ c.chunkIds[i] = c.chunkIds[j]
            /\ \A k \in (j + 1)..Len(c.chunkIds) : c.chunkIds[k] # c.chunkIds[j] )
          => /\ c.chunkIds[j] \in DOMAIN toc.chunkIdToIndex
             /\ toc.chunkIdToIndex[c.chunkIds[j]] = j - 1
             /\ getOffsetAndLength(toc, c.chunkIds[j]) = c.chunkOffsetLengths[j]
             /\ OffsetOf(getOffsetAndLength(toc, c.chunkIds[j]))
                   = WrittenOffset(c.chunkOffsetLengths[j])
             /\ LengthOf(getOffsetAndLength(toc, c.chunkIds[j]))
                   = WrittenLength(c.chunkOffsetLengths[j])

\* A TOC whose chunk-id table holds one id twice, with different records, has
\* been parsed.
C24_Witness ==
    /\ TocParsed
    /\ Len(mounted.container.chunkIds) >= 2
    /\ mounted.container.chunkIds[1] = mounted.container.chunkIds[2]
    /\ mounted.container.chunkOffsetLengths[1] # mounted.container.chunkOffsetLengths[2]

\* The 40-bit offset field of a block entry: bytes 0..4, least significant
\* first.
FieldOffset(e) ==
    e[1] + 256 * (e[2] + 256 * (e[3] + 256 * (e[4] + 256 * e[5])))

\* The getters of block entry e return the fields of the format, each within
\* the range of its width.
DecodesAsFormat(e) ==
    /\ EntryOffset(e) = FieldOffset(e)
    /\ EntryCompressedSize(e) = FieldCompressedSize(e)
    /\ EntryCompressedSize(e) >= 0 /\ EntryCompressedSize(e) < 2 ^ 24
    /\ EntryUncompressedSize(e) = FieldUncompressedSize(e)
    /\ EntryUncompressedSize(e) >= 0 /\ EntryUncompressedSize(e) < 2 ^ 24
    /\ EntryCompressionMethodIndex(e) = FieldMethod(e)
    /\ EntryCompressionMethodIndex(e) >= 0 /\ EntryCompressionMethodIndex(e) <= 255

\* C25: for every 12-byte compressed-block entry the decoded fields equal the
\* effective decode of the format: offset the low 40 bits of the first 8
\* bytes, compressedSize bytes 5..7, uncompressedSize bytes 8..10,
\* compressionMethodIndex byte 11; compressedSize and uncompressedSize lie in
\* [0, 2^24) and compressionMethodIndex in [0, 255] for every input, entries
\* whose byte 7 or byte 11 is 0x80 or above included.
C25_BlockEntryDecode ==
    TocParsed =>
       \A j \in 1..Len(toc.compressionBlocks) :
          /\ toc.compressionBlocks[j] = mounted.container.compressionBlocks[j]
          /\ DecodesAsFormat(toc.compressionBlocks[j])

\* The same for the entries whose bytes 7 and 11 are below 0x80.
BlockEntryDecodeBelowHighBit ==
    TocParsed =>
       \A j \in 1..Len(toc.compressionBlocks) :
          (toc.compressionBlocks[j][8] < 128 /\ toc.compressionBlocks[j][12] < 128)
             => DecodesAsFormat(toc.compressionBlocks[j])

\* The chunk ids of the TOC that was parsed last.
LatestIds == {mounted.container.chunkIds[i] : i \in 1..Len(mounted.container.chunkIds)}

\* C29: after any sequence of TOC parses on one TOC object the key set of the
\* chunk index is exactly the set of chunk ids of the TOC parsed last: an id
\* that only an earlier TOC had is reported absent by the lookups, and a read
\* of it fails as an unknown chunk.
C29_IndexHoldsLatestIdsOnly ==
    TocParsed =>
       /\ DOMAIN toc.chunkIdToIndex = LatestIds
       /\ \A id \in ChunkIdVals \ LatestIds :
             /\ getTocEntryIndex(toc, id) = -1
             /\ getOffsetAndLength(toc, id) = <<>>
       /\ (ReadCalled /\ rd.chunkId \notin LatestIds) => FailedAsUnknownChunk

\* The same on a TOC object that has parsed one TOC only.
IndexHoldsLatestIdsFirstMount == mounts <= 1 => C29_IndexHoldsLatestIdsOnly

\* C30: when initialize fails, because a partition file cannot be opened or
\* the key is missing, no file handle that the call opened stays open:
\* handles are held by a Mounted reader only.
C30_FailedMountHoldsNoHandle ==
    mounted.state # "Mounted" => containerFileHandles = <<>>

\* The same for the mounts that fail before the first partition file is
\* opened: in the TOC parser, or on partition 0.
FailedBeforeFirstOpenHoldsNoHandle ==
    ( /\ mounted.state = "Failed"
      /\ mounts <= 1
      /\ mounted.tocError # "" \/ mounted.failedPartition = 0 \/ mounted.by = "_initialize" )
       => containerFileHandles = <<>>

\* Byte k (0 the least significant, up to 4) of a limb pair below 2^40.
ByteOfBig(v, k) ==
    IF k <= 2 THEN (v[2] \div (256 ^ k)) % 256
    ELSE IF k = 3 THEN v[2] \div (2 ^ 24) + (v[1] % 4) * 64
    ELSE v[1] \div 4

\* The limb pair is a number of [0, 2^40).
InU40(v) == v[1] >= 0 /\ v[1] < 2 ^ 10 /\ v[2] >= 0 /\ v[2] < Limb

\* C26: for every 10-byte offset/length record, offset is the big-endian
\* 40-bit number of bytes 0..4 and length the big-endian 40-bit number of
\* bytes 5..9; both lie in [0, 2^40), and neither field depends on the bytes
\* of the other.
C26_OffsetAndLengthDecode ==
    TocParsed =>
       \A i \in 1..Len(toc.chunkOffsetLengths) :
          LET ol == toc.chunkOffsetLengths[i]
              o == FIoOffsetAndLength_offset(ol)
              l == FIoOffsetAndLength_length(ol)
          IN  /\ ol = mounted.container.chunkOffsetLengths[i]
              /\ InU40(o) /\ InU40(l)
              /\ \A k \in 0..4 : ByteOfBig(o, k) = ol[5 - k]
              /\ \A k \in 0..4 : ByteOfBig(l, k) = ol[10 - k]
              /\ (ol[1] = 0 /\ ol[2] < 64) => o = BigOf(OffsetOf(ol))
              /\ (ol[6] = 0 /\ ol[7] < 64) => l = BigOf(LengthOf(ol))
              /\ \A j \in 1..Len(toc.chunkOffsetLengths) :
                    LET other == toc.chunkOffsetLengths[j] IN
                    /\ (\A k \in 1..5 : other[k] = ol[k])
                          => FIoOffsetAndLength_offset(other) = o
                    /\ (\A k \in 6..10 : other[k] = ol[k])
                          => FIoOffsetAndLength_length(other) = l

\* A parsed record whose top offset byte is 0x80 or above and whose length
\* has its top byte set, next to one with other bytes.
C26_Witness ==
    /\ TocParsed
    /\ \E i, j \in 1..Len(toc.chunkOffsetLengths) :
          /\ toc.chunkOffsetLengths[i][1] >= 128
          /\ toc.chunkOffsetLengths[i][6] >= 1
          /\ toc.chunkOffsetLengths[j][6] >= 128
          /\ FIoOffsetAndLength_offset(toc.chunkOffsetLengths[i])
                # FIoOffsetAndLength_length(toc.chunkOffsetLengths[i])

\* C21: after every successful TOC parse the chunk-id table and the
\* offset/length table have tocEntryCount entries each, the block table has
\* tocCompressedBlockEntryCount entries, the method table has
\* compressionMethodNameCount + 1 entries of which entry 0 is "None", and the
\* meta table has tocEntryCount entries when ReadTocMeta was asked for and
\* none when it was not.
C21_TableSizes ==
    TocParsed =>
       LET h == toc.header IN
       /\ h.tocEntryCount = Len(mounted.container.chunkIds)
       /\ Len(toc.chunkIds) = h.tocEntryCount
       /\ Len(toc.chunkOffsetLengths) = h.tocEntryCount
       /\ Len(toc.compressionBlocks) = h.tocCompressedBlockEntryCount
       /\ Len(toc.compressionMethods) = h.compressionMethodNameCount + 1
       /\ toc.compressionMethods[1] = "None"
       /\ Len(toc.chunkMetas) =
             IF ReadTocMeta \in mounted.readOptions THEN h.tocEntryCount ELSE 0

\* A TOC with chunks has been parsed without ReadTocMeta by a reader that
\* had parsed one with it before.
C21_Witness ==
    /\ TocParsed
    /\ mounts = 2
    /\ ReadTocMeta \notin mounted.readOptions
    /\ Len(toc.chunkIds) > 0
    /\ toc.chunkMetas = <<>>

\* A TOC with chunks has been parsed with ReadTocMeta.
C21_WitnessWithMeta ==
    /\ TocParsed
    /\ ReadTocMeta \in mounted.readOptions
    /\ Len(toc.chunkMetas) = 3

\* A step that is a call of initialize.
ParseStep == pc = "idle" /\ pc' # "idle" /\ out'.op = "initialize"

\* Image c passes the header checks, has the Indexed flag and a
\* directoryIndexSize above 0, and every method-name scan on it ends.
IndexedImage(c) ==
    /\ HeaderAccepted(c)
    /\ "Indexed" \in c.containerFlags
    /\ ~IsZero(c.directoryIndexSize)
    /\ FirstEndless(c, Len(c.methodSlots)) > Len(c.methodSlots)

\* Parsing image c on resource t with and without ReadDirectoryIndex, the
\* other option as in readOptions: both parses return with the cursor
\* directoryIndexSize bytes behind the start of the blob, with the same metas
\* and the same other tables; with the option the blob captured has
\* directoryIndexSize bytes and is the blob of the image, without it the
\* resource holds no blob.
SameWithAndWithoutIndex(t, c, readOptions, negative) ==
    LET with == TocRead(t, c, readOptions \cup {ReadDirectoryIndex}, negative)
        without == TocRead(t, c, readOptions \ {ReadDirectoryIndex}, negative)
    IN  /\ with.error = "" /\ without.error = ""
        /\ with.pos = without.pos
        /\ with.pos = BigAdd(DirectoryIndexStart(c), c.directoryIndexSize)
        /\ with.toc.chunkMetas = without.toc.chunkMetas
        /\ ReadTocMeta \in readOptions =>
              \A i \in 1..Len(c.chunkIds) : with.toc.chunkMetas[i] = WriterMeta(c, i)
        /\ [with.toc EXCEPT !.directoryIndexBuffer = <<>>]
              = [without.toc EXCEPT !.directoryIndexBuffer = <<>>]
        /\ with.toc.directoryIndexBuffer # <<>>
        /\ with.toc.directoryIndexBuffer.size = c.directoryIndexSize
        /\ with.toc.directoryIndexBuffer.intact
        /\ without.toc.directoryIndexBuffer = <<>>

\* C27: for a TOC with the Indexed flag and any u32 directoryIndexSize above
\* 0, parsing with and without ReadDirectoryIndex moves the cursor by the
\* same directoryIndexSize bytes, so that the metas read after it and all
\* other tables are the same; with the option the blob captured has exactly
\* directoryIndexSize bytes, without it no blob is kept.
C27_SameCursorWithAndWithoutIndex ==
    [][ (ParseStep /\ IndexedImage(mounted'.container)) =>
          \A negative \in NegativeReads :
             SameWithAndWithoutIndex(toc, mounted'.container,
                                     mounted'.readOptions, negative) ]_vars

\* The same for a directoryIndexSize below 2^31, parsed by a TOC object that
\* holds no blob.
SameCursorBelowSignBit ==
    [][ ( /\ ParseStep /\ IndexedImage(mounted'.container)
          /\ mounted'.container.directoryIndexSize[1] < 2
          /\ toc.directoryIndexBuffer = <<>> ) =>
          \A negative \in NegativeReads :
             SameWithAndWithoutIndex(toc, mounted'.container,
                                     mounted'.readOptions, negative) ]_vars

RECURSIVE Concat(_)
\* The characters of a sequence as one string.
Concat(chars) == IF chars = <<>> THEN "" ELSE Head(chars) \o Concat(Tail(chars))

\* The bytes of a slot up to its first NUL; the whole slot when it has none.
UpToFirstNUL(slot) ==
    LET nuls == {k \in 1..Len(slot) : slot[k] = NUL}
    IN  IF nuls = {} THEN slot
        ELSE SubSeq(slot, 1, (CHOOSE k \in nuls : \A m \in nuls : k <= m) - 1)

\* The method table of the parsed TOC holds the name of every slot of the
\* image.
NamesOfSlots ==
    /\ Len(toc.compressionMethods) = Len(mounted.container.methodSlots) + 1
    /\ \A i \in 1..Len(mounted.container.methodSlots) :
          toc.compressionMethods[i + 1]
             = Concat(UpToFirstNUL(mounted.container.methodSlots[i]))

\* C28: reading the method-name table terminates for every slot content,
\* and each name is the bytes of its slot up to the first NUL; a slot
\* without NUL, a slot length of 0 included, gives the whole slot.
C28_MethodNameScanEnds ==
    /\ pc # "scan"
    /\ TocParsed => NamesOfSlots

\* The same for the images whose slots all hold a NUL.
MethodNameScanEndsAtNUL ==
    ( /\ mounted.state # "Unmounted"
      /\ HeaderAccepted(mounted.container)
      /\ \A i \in 1..Len(mounted.container.methodSlots) :
            \E k \in 1..Len(mounted.container.methodSlots[i]) :
               mounted.container.methodSlots[i][k] = NUL )
       => /\ pc # "scan"
          /\ mounted.tocError = "" => NamesOfSlots

RECURSIVE LinkedDirectories(_, _, _)
\* The directories linked from the set S in at most n steps over
\* firstChildEntry and nextSiblingEntry.
LinkedDirectories(index, S, n) ==
    IF n = 0 THEN S
    ELSE LinkedDirectories(
             index,
             S \cup (({index.directoryEntries[d + 1].firstChildEntry : d \in S}
                      \cup {index.directoryEntries[d + 1].nextSiblingEntry : d \in S})
                     \ {None}),
             n - 1)

RECURSIVE LinkedFiles(_, _, _)
\* The file entries linked from the set S in at most n steps over
\* nextFileEntry.
LinkedFiles(index, S, n) ==
    IF n = 0 THEN S
    ELSE LinkedFiles(
             index,
             S \cup ({index.fileEntries[f + 1].nextFileEntry : f \in S} \ {None}),
             n - 1)

\* The file-entry nodes of a directory index that can be reached from the
\* root directory.
ReachableFiles(index) ==
    LET dirs == LinkedDirectories(index, {0}, Len(index.directoryEntries))
    IN  LinkedFiles(index,
                    {index.directoryEntries[d + 1].firstFileEntry : d \in dirs}
                       \ {None},
                    Len(index.fileEntries))

\* getFiles has returned a list made with a directory-index reader.
Listed ==
    /\ pc = "done"
    /\ out.op = "getFiles"
    /\ out.error = ""
    /\ directoryIndexReader.value # <<>>

\* The traversal of the reader's directory index from the root.
Traversal ==
    iterateDirectoryIndex(directoryIndexReader.value.index, 0,
                          directoryIndexReader.value.index.mountPoint)

\* The traversal visits every reachable file-entry node once, and no other.
TraversalVisitsReachable ==
    /\ Len(Traversal) = Cardinality(ReachableFiles(directoryIndexReader.value.index))
    /\ \A k, m \in 1..Len(Traversal) :
          Traversal[k].filename = Traversal[m].filename => k = m

\* The list holds one entry, with the chunk id of its TOC entry, for each
\* entry of the traversal that satisfies wanted, and no other entry.
ListsExactly(wanted(_)) ==
    /\ \A k \in 1..Len(Traversal) :
          Cardinality({m \in 1..Len(out.files) :
                          out.files[m].filename = Traversal[k].filename})
             = IF wanted(Traversal[k]) THEN 1 ELSE 0
    /\ \A m \in 1..Len(out.files) :
          \E k \in 1..Len(Traversal) :
             /\ out.files[m].filename = Traversal[k].filename
             /\ out.files[m].chunkId = toc.chunkIds[Traversal[k].tocEntryIndex + 1]

AnyEntry(e) == TRUE
ExportBundleEntry(e) ==
    chunkType(toc.chunkIds[e.tocEntryIndex + 1]) = "ExportBundleData"

\* C22: getFiles yields exactly one entry for every file-entry node that can
\* be reached from the root of the directory index, whatever the type of its
\* chunk, without duplicates, and none for a node that cannot be reached.
C22_ListsEveryReachableFile ==
    Listed => (TraversalVisitsReachable /\ ListsExactly(AnyEntry))

\* The same for the file entries whose chunk has the type ExportBundleData.
ListsEveryReachableExportBundle ==
    Listed => (TraversalVisitsReachable /\ ListsExactly(ExportBundleEntry))

\* A step that is a call of getFiles.
GetFilesStep == pc = "idle" /\ pc' = "done" /\ out'.op = "getFiles"

\* The reader is mounted on a container whose TOC has a directory index, of
\* less than 2^31 bytes, and was parsed with ReadDirectoryIndex: the parse
\* captured the blob.
MountedWithIndex ==
    /\ mounted.state = "Mounted"
    /\ ReadDirectoryIndex \in mounted.readOptions
    /\ "Indexed" \in mounted.container.containerFlags
    /\ ~IsZero(mounted.container.directoryIndexSize)
    /\ mounted.container.directoryIndexSize[1] < 2

\* The file list of the mounted container.
FilesOfMounted ==
    ListedFiles(iterateDirectoryIndex(mounted.container.directoryIndex, 0,
                                      mounted.container.directoryIndex.mountPoint),
                mounted.container.chunkIds, mounted.container.path)

\* The step leaves a reader built from the blob of the mounted container,
\* the blob released, and returns the container's file list; a reader that
\* was built before the step is the one after it.
ListsWithReaderOfMounted ==
    /\ out'.error = ""
    /\ directoryIndexReader'.initialized
    /\ directoryIndexReader'.value # <<>>
    /\ directoryIndexReader'.value.index = mounted.container.directoryIndex
    /\ toc'.directoryIndexBuffer = <<>>
    /\ directoryIndexReader.initialized => directoryIndexReader' = directoryIndexReader
    /\ out'.files = FilesOfMounted

\* C23: the directory-index reader is built at most once per mounted
\* container: the first file enumeration builds it from the captured blob
\* and releases the blob, and every later getFiles call uses the same reader
\* and returns the same file list.
C23_ReaderBuiltOncePerContainer ==
    [][(GetFilesStep /\ MountedWithIndex) => ListsWithReaderOfMounted]_vars

\* The same for the first container a reader is mounted on.
ReaderBuiltOnceFirstContainer ==
    [][(GetFilesStep /\ MountedWithIndex /\ mounts = 1)
          => ListsWithReaderOfMounted]_vars

====
